---- MODULE Spec2Model ----
(***************************************************************************)
(* Model of the agent execution and event distribution core of OpenManus.  *)
(*                                                                         *)
(*   Part I   the HTTP task registry of src/app.py (TaskManager, run_task, *)
(*            the event stream of /tasks/{id}/events)                      *)
(*   Part II  the event hub of src/app/event.py (EventManager)             *)
(*   Part III the finish tool of src/app/tool/finish.py                    *)
(*   Part IV  the event bus of src/app/event_bus.py                        *)
(*   Part V   the upload, deploy and verify tools of src/app/tool          *)
(*   Part VI  the event handlers of a flow, src/app/flow/base.py           *)
(*   Part VII the think step of the Manus agent, src/app/agent/manus.py    *)
(*                                                                         *)
(* asyncio runs one coroutine at a time and switches only at an await that *)
(* really suspends.  asyncio.Queue() without maxsize never suspends in     *)
(* put, so every action below is the code between two real suspension      *)
(* points.                                                                 *)
(***************************************************************************)
EXTENDS Integers, Sequences, FiniteSets, TLC

\* ---------------------------------------------------------------- bounds
MaxTasks == 2
MaxSubs == 2
MaxSteps == 1
MaxTerminate == 2
StreamTasks == 1
MaxClients == 2
MaxPublishers == 2
MaxEvents == 3
MaxHistory == 2
QueueSize == 1
MaxLogs == 1
MaxPlans == 1
MaxPlanSteps == 2
MaxFinish == 2
MaxBusQueues == 3
MaxEmits == 2
MaxCalls == 1
MaxHandlers == 2
MaxFlowEmits == 2
MaxMessages == 4
MaxThinks == 2

TaskIds == 1..MaxTasks
SubIds == 1..MaxSubs

VARIABLES
    tasks,          \* TaskManager.tasks: task id -> [status, steps, created_at]
    queues,         \* TaskManager.queues: task id -> contents of its asyncio.Queue
    running_tasks,  \* TaskManager.running_tasks: ids whose run_task coroutine is stored
    runPc,          \* where the run_task coroutine of a task stands
    cancelReq,      \* cancel() was called on the coroutine, CancelledError not yet thrown in
    agentState,     \* AgentState of the task's agent
    current_step,   \* the agent's step counter
    emitted,        \* history: every event ever put on the task's queue, in order
    subPc,          \* event_generator of a subscription: "idle", "open", "closed"
    subTask,        \* the task id a subscription was opened on
    subAt,          \* history: Len(emitted) of the task when the subscription opened
    nReceived,      \* history: how many events put after it opened the subscription took
    subLast,        \* history: id of the event the subscription yielded last, 0 if none
    response,       \* the last answer of the terminate endpoint
    nTerminate,     \* number of terminate requests served
    \* ---- EventManager (src/app/event.py)
    events,         \* EventManager.events: deque(maxlen=max_events) of event numbers
    clients,        \* EventManager.clients: the subscribed client queues
    lock,           \* EventManager._lock: the add_event call holding it, or 0
    nPublished,     \* number of events appended so far; an event is its number
    pubPc,          \* an add_event call: "idle" or "blocked" in client.put
    pubEvt,         \* the event a blocked add_event call is delivering
    pubTodo,        \* the clients of its list(self.clients) still to notify
    cPc,            \* a client: "idle", "replay", "live", "failed", "closed"
    cKind,          \* "queue" (connect_client) or "gen" (event_json_generator)
    cCap,           \* maxsize of the client's asyncio.Queue, 0 = unbounded
    cDead,          \* the queue was shut down: put raises
    cReplay,        \* the client subscribed with replay=true
    buf,            \* contents of the client's queue
    replayTodo,     \* history events the replay loop has still to deliver
    replayStale,    \* the deque was appended to while the replay loop was suspended
    delivered,      \* history: the events handed to the client, in order, with origin
    audience,       \* history: event -> the subscriber set when it was published
    refused,        \* history: event -> the clients whose put raised
    cHist,          \* history: the deque contents when the client subscribed
    \* ---- the process-wide logger (app.logger.logger, used in src/app.py)
    log_handlers,   \* the SSELogHandler sinks added to the logger, by task id
    nLogs,          \* number of logger calls delivered so far
    logBy,          \* history: the task whose execution made the last logger call
    \* ---- FinishTool (src/app/tool/finish.py) and the plans it reads
    planning_tool,  \* FinishTool.planning_tool is set
    current_plan_id, \* planning_tool._current_plan_id, 0 = None
    plans,          \* planning_tool.plans: plan id -> its step_statuses
    task_complete,  \* FinishTool.task_complete
    last_result,    \* FinishTool.last_result
    tool_result,    \* the ToolResult of the last execute call
    finish_call,    \* history: number and arguments of the last execute call
    wasRejected,    \* history: some execute call returned the incomplete-steps error
    \* ---- CoTAgent (src/app/agent/cot.py)
    agentEvents,    \* history: the events the task's agent emitted (emit_event), in order
    \* ---- EventBus (src/app/event_bus.py)
    task_event_queues,  \* EventBus.task_event_queues: task id -> list of queues
    bus_buf,        \* the asyncio.Queue objects register_task made, by number
    bus_task,       \* history: the task id each of them was registered for
    nEmits,         \* number of EventBus.emit calls so far
    last_puts,      \* history: the queues the last emit call put on, in order
    tool_call,      \* the last call of an upload, deploy or verify tool, with what
                    \* the storage, the file system and the network did
    tool_outcome,   \* what that call returned or raised, and the uploads it tried
    bucket,         \* the object keys the storage holds
    nCalls,         \* number of tool calls so far
    \* ---- a flow (src/app/flow/base.py)
    event_callbacks, \* BaseFlow.event_callbacks: event type -> list of handlers
    flow_task_id,   \* the task_id attribute of the flow, 0 if absent or None
    flow_emit,      \* the emit_event call: where it stands and how it ended
    flow_calls,     \* history: the handlers that call has invoked, with outcome
    nFlowEmits,     \* number of emit_event calls so far
    \* ---- Manus.think (src/app/agent/manus.py)
    next_step_prompt, \* the agent's next_step_prompt attribute
    messages,       \* memory.messages: whether each content mentions browser_use
    think,          \* the think call: where it stands, its locals, how it ended
    nThinks,        \* number of think calls so far
    \* ---- EventManager.tool_result (src/app/event.py)
    tr_call,        \* the last tool_result call: tool name, shapes of its arguments
    tr_outcome      \* what it raised, or the event it built and published

taskVars == <<tasks, queues, running_tasks, runPc, cancelReq, agentState,
              current_step, emitted, subPc, subTask, subAt, nReceived, subLast,
              response, nTerminate>>

hubVars == <<events, clients, lock, nPublished, pubPc, pubEvt, pubTodo,
             cPc, cKind, cCap, cDead, cReplay, buf, replayTodo, replayStale,
             delivered, audience, refused, cHist>>

logVars == <<log_handlers, nLogs, logBy>>

finishVars == <<planning_tool, current_plan_id, plans, task_complete,
                last_result, tool_result, finish_call, wasRejected>>

agentVars == <<agentEvents>>

\* What no action of the registry, of the Manus execution or of the hub touches.
busVars == <<task_event_queues, bus_buf, bus_task, nEmits, last_puts>>

toolVars == <<tool_call, tool_outcome, bucket, nCalls>>

flowVars == <<event_callbacks, flow_task_id, flow_emit, flow_calls, nFlowEmits>>

thinkVars == <<next_step_prompt, messages, think, nThinks>>

trVars == <<tr_call, tr_outcome>>

otherVars == <<flowVars, thinkVars, trVars>>

restVars == <<finishVars, agentVars, busVars, toolVars, otherVars>>

vars == <<taskVars, hubVars, logVars, restVars>>

NoResponse == [status |-> "none", task_id |-> 0]

\* ------------------------------------------------------ Part I: src/app.py

\* The three structures every TaskManager method works on, as one value.
TM == [tasks |-> tasks, queues |-> queues, emitted |-> emitted]

\* asyncio.Queue.put on an unbounded queue: append, never suspends.
\* The id field numbers the events of one task in the order they were put;
\* status_then is history: the status of the task when the event was put.
QueuePut(S, task_id, event) ==
    LET ev == event @@ [id |-> Len(S.emitted[task_id]) + 1,
                        status_then |-> S.tasks[task_id].status]
    IN [S EXCEPT !.queues[task_id] = Append(@, ev),
                 !.emitted[task_id] = Append(@, ev)]

\* {"type": "status", "status": task.status, "steps": task.steps}: the event
\* holds the list object task.steps itself, the list of the task on whose
\* queue it lies.  steps_then is history: what the list held when the event
\* was put.
StatusEvent(S, task_id) ==
    [type |-> "status", status |-> S.tasks[task_id].status,
     steps_then |-> S.tasks[task_id].steps]

HistoryFields == {"id", "status_then", "steps_then"}

\* dumps(event) of event_generator for an event taken from the queue of
\* task_id: the text is made when the event is taken, from what the list of
\* steps holds then.
dumps(event, task_id) ==
    [f \in DOMAIN event \ HistoryFields |-> event[f]]
        @@ (IF event.type = "status"
            THEN [steps |-> tasks[task_id].steps]
            ELSE <<>>)

\* update_task_step that puts its events and records no step.
update_task_step_no_record(S, task_id, step, step_type) ==
    IF task_id \in DOMAIN S.tasks
    THEN LET S2 == QueuePut(S, task_id, [type |-> step_type, step |-> step])
         IN QueuePut(S2, task_id, StatusEvent(S2, task_id))
    ELSE S

update_task_step(S, task_id, step, step_type) ==
    IF task_id \in DOMAIN S.tasks
    THEN LET S1 == [S EXCEPT !.tasks[task_id].steps =
                                 Append(@, [step |-> step, type |-> step_type])]
             S2 == QueuePut(S1, task_id, [type |-> step_type, step |-> step])
         IN QueuePut(S2, task_id, StatusEvent(S2, task_id))
    ELSE S

\* complete_task that puts its events and leaves the status alone.
complete_task_status_kept(S, task_id) ==
    IF task_id \in DOMAIN S.tasks
    THEN LET S2 == QueuePut(S, task_id, StatusEvent(S, task_id))
         IN QueuePut(S2, task_id, [type |-> "complete", terminated |-> FALSE])
    ELSE S

complete_task(S, task_id) ==
    IF task_id \in DOMAIN S.tasks
    THEN LET S1 == [S EXCEPT !.tasks[task_id].status = "completed"]
             S2 == QueuePut(S1, task_id, StatusEvent(S1, task_id))
         IN QueuePut(S2, task_id, [type |-> "complete", terminated |-> FALSE])
    ELSE S

\* What str(e) can be in run_task's except clause.
Errors == {"provider_error", "timeout"}

\* f"failed: {error}"
FailedStatus(error) ==
    CASE error = "provider_error" -> "failed: provider_error"
      [] error = "timeout" -> "failed: timeout"

\* fail_task that puts the error event and leaves the status alone.
fail_task_status_kept(S, task_id, error) ==
    IF task_id \in DOMAIN S.tasks
    THEN QueuePut(S, task_id, [type |-> "error", message |-> error])
    ELSE S

fail_task(S, task_id, error) ==
    IF task_id \in DOMAIN S.tasks
    THEN LET S1 == [S EXCEPT !.tasks[task_id].status = FailedStatus(error)]
         IN QueuePut(S1, task_id, [type |-> "error", message |-> error])
    ELSE S

\* A coroutine that goes on after cancel() as if nothing had been asked.
must_cancel_ignored(task_id) == FALSE

\* asyncio.Task._must_cancel: cancel() was called on the coroutine, and its
\* next turn throws CancelledError into it instead of resuming it.
must_cancel(task_id) == cancelReq[task_id]

\* running_tasks[task_id].done(): the coroutine returned, raised or was cancelled.
CoroutineDone(task_id) == runPc[task_id] = "done"

\* terminate_task without the done() test.
IsRunningStored(task_id) == task_id \in running_tasks

\* The test of terminate_task: a stored coroutine that is not done.
IsRunning(task_id) ==
    task_id \in running_tasks /\ ~CoroutineDone(task_id)

\* terminate_task with its two puts in the other order.
terminate_events_complete_first(S, task_id) ==
    LET S1 == [S EXCEPT !.tasks[task_id].status = "terminated"]
        S2 == QueuePut(S1, task_id, [type |-> "complete", terminated |-> TRUE])
    IN QueuePut(S2, task_id, StatusEvent(S2, task_id))

\* The status change and the two events of a successful terminate_task.
terminate_events(S, task_id) ==
    LET S1 == [S EXCEPT !.tasks[task_id].status = "terminated"]
        S2 == QueuePut(S1, task_id, StatusEvent(S1, task_id))
    IN QueuePut(S2, task_id, [type |-> "complete", terminated |-> TRUE])

\* The handlers run_task registers on the agent.
on_thinking(S, task_id, step) == update_task_step(S, task_id, step, "think")
on_tool_select(S, task_id, step) == update_task_step(S, task_id, step, "tool")
on_tool_execute(S, task_id, step) == update_task_step(S, task_id, step, "tool")
on_tool_result(S, task_id, step) == update_task_step(S, task_id, step, "act")
on_state_change(S, task_id, to) ==
    IF to = "FINISHED" THEN update_task_step(S, task_id, 0, "complete") ELSE S
on_error(S, task_id) == update_task_step(S, task_id, 0, "error")
on_task_complete(S, task_id) == complete_task(S, task_id)
on_manus_context(S, task_id, step) == update_task_step(S, task_id, step, "context")

Commit(S) ==
    /\ tasks' = S.tasks
    /\ queues' = S.queues
    /\ emitted' = S.emitted

\* A task that is created in status running.
NewTaskRunning(task_id) ==
    [status |-> "running", steps |-> <<>>, created_at |-> task_id]

\* Task(id=task_id, prompt=prompt, created_at=datetime.now(), status="pending");
\* the clock has moved on since the task before was created.
NewTask(task_id) ==
    [status |-> "pending", steps |-> <<>>, created_at |-> task_id]

\* POST /tasks: create_task, asyncio.create_task(run_task(...)), store_running_task.
CreateTask ==
    /\ Cardinality(DOMAIN tasks) < MaxTasks
    /\ LET task_id == Cardinality(DOMAIN tasks) + 1
       IN /\ tasks' = tasks @@ (task_id :> NewTask(task_id))
          /\ queues' = queues @@ (task_id :> <<>>)
          /\ emitted' = emitted @@ (task_id :> <<>>)
          /\ running_tasks' = running_tasks \cup {task_id}
          /\ runPc' = [runPc EXCEPT ![task_id] = "scheduled"]
    /\ UNCHANGED <<cancelReq, agentState, current_step, subPc, subTask, subAt,
                   nReceived, subLast, response, nTerminate,
                   hubVars, logVars, restVars>>

\* A get_task that knows no task.
get_task_not_found(task_id) ==
    [status_code |-> 404, detail |-> "Task not found"]

\* GET /tasks/{task_id}
get_task(task_id) ==
    IF task_id \notin DOMAIN tasks
    THEN [status_code |-> 404, detail |-> "Task not found"]
    ELSE [status_code |-> 200, task |-> tasks[task_id]]

\* tasks.values(): the tasks in the order they were put into the dict.
TaskValues ==
    [i \in 1..Cardinality(DOMAIN tasks) |-> [id |-> i] @@ tasks[i]]

\* sorted(seq, key=created_at): stable, smallest key first.
RECURSIVE sorted_by_created_at(_)
sorted_by_created_at(seq) ==
    IF seq = <<>> THEN <<>>
    ELSE LET front == sorted_by_created_at(SubSeq(seq, 1, Len(seq) - 1))
             x == seq[Len(seq)]
             k == Cardinality({i \in 1..Len(front) :
                                  front[i].created_at <= x.created_at})
         IN SubSeq(front, 1, k) \o <<x>> \o SubSeq(front, k + 1, Len(front))

\* sorted(seq, key=created_at, reverse=True): stable, largest key first.
RECURSIVE sorted_by_created_at_reverse(_)
sorted_by_created_at_reverse(seq) ==
    IF seq = <<>> THEN <<>>
    ELSE LET front == sorted_by_created_at_reverse(SubSeq(seq, 1, Len(seq) - 1))
             x == seq[Len(seq)]
             k == Cardinality({i \in 1..Len(front) :
                                  front[i].created_at >= x.created_at})
         IN SubSeq(front, 1, k) \o <<x>> \o SubSeq(front, k + 1, Len(front))

\* GET /tasks
get_tasks == sorted_by_created_at_reverse(TaskValues)

\* ---- the agent run_task drives (app/agent/base.py is not part of the sources:
\* ---- the step loop follows section 4.1 of the specification)

\* 4.1 step 1, then Manus.think up to the completion call.
AgentBeginStep(S, task_id, step) ==
    on_manus_context(on_state_change(S, task_id, "RUNNING"), task_id, step)

TerminalStates == {"FINISHED", "ERROR"}

\* A run loop that goes on whatever the state.
RunLoopNeverStops(state) == "llm"

\* 4.1 contract: run calls step again until the state is terminal.
RunLoop(state) == IF state \in TerminalStates THEN "done" ELSE "llm"

\* What agent.run returns: the final answer, or the truncation notice.
RunResults == {"answer", "max steps reached"}

\* update_task_step(task_id, 1, result, "result") of run_task, with the text
\* of the result.
record_result(S, task_id, result) ==
    IF task_id \in DOMAIN S.tasks
    THEN LET S1 == [S EXCEPT !.tasks[task_id].steps =
                                 Append(@, [step |-> 1, type |-> "result",
                                            result |-> result])]
             S2 == QueuePut(S1, task_id, [type |-> "result", step |-> 1,
                                          result |-> result])
         IN QueuePut(S2, task_id, StatusEvent(S2, task_id))
    ELSE S

\* 4.1 steps 5 and 6: FINISHED, emit complete; run returns and run_task
\* records the result (app.py line 387).
AgentFinish(S, task_id, result) ==
    record_result(on_task_complete(S, task_id), task_id, result)

\* 4.1 step 8: ERROR, emit error; run fails and run_task's except clause
\* calls fail_task (app.py lines 388-389).
AgentFail(S, task_id, error) ==
    fail_task(on_error(S, task_id), task_id, error)

\* The coroutine starts: app.py line 140, agent construction, handler
\* registration, logger.add(sse_handler), agent.run up to the first
\* completion call.
RunStart(task_id) ==
    /\ task_id \in DOMAIN tasks
    /\ runPc[task_id] = "scheduled"
    /\ ~must_cancel(task_id)
    /\ LET S1 == [TM EXCEPT !.tasks[task_id].status = "running"]
       IN Commit(AgentBeginStep(S1, task_id, current_step[task_id]))
    /\ agentState' = [agentState EXCEPT ![task_id] = "RUNNING"]
    /\ runPc' = [runPc EXCEPT ![task_id] = "llm"]
    /\ log_handlers' = log_handlers \cup {task_id}
    /\ UNCHANGED <<running_tasks, cancelReq, current_step, subPc, subTask,
                   subAt, nReceived, subLast, response, nTerminate,
                   hubVars, nLogs, logBy, restVars>>

\* A limit that is never reached.
ReachedMaxStepsNever(step) == FALSE

\* 4.1 step 7: step counter == max_steps.
ReachedMaxSteps(step) == step >= MaxSteps

\* 4.1 step 7: the step counter advances; at max_steps the agent is forced
\* to FINISHED, otherwise the next step begins.
AgentEndStep(S, task_id) ==
    LET next == current_step[task_id] + 1
    IN IF ReachedMaxSteps(next)
       THEN /\ Commit(AgentFinish(S, task_id, "max steps reached"))
            /\ agentState' = [agentState EXCEPT ![task_id] = "FINISHED"]
            /\ runPc' = [runPc EXCEPT ![task_id] = "done"]
            /\ current_step' = [current_step EXCEPT ![task_id] = next]
       ELSE /\ Commit(AgentBeginStep(S, task_id, next))
            /\ agentState' = agentState
            /\ runPc' = [runPc EXCEPT ![task_id] = "llm"]
            /\ current_step' = [current_step EXCEPT ![task_id] = next]

\* The completion call returns: think, then a final answer, a tool call, or
\* neither.
LlmAnswer(task_id) ==
    /\ task_id \in DOMAIN tasks
    /\ runPc[task_id] = "llm"
    /\ ~must_cancel(task_id)
    /\ LET S1 == on_thinking(TM, task_id, current_step[task_id])
       IN Commit(AgentFinish(S1, task_id, "answer"))
    /\ agentState' = [agentState EXCEPT ![task_id] = "FINISHED"]
    /\ runPc' = [runPc EXCEPT ![task_id] = RunLoop("FINISHED")]
    /\ UNCHANGED <<running_tasks, cancelReq, current_step, subPc, subTask,
                   subAt, nReceived, subLast, response, nTerminate,
                   hubVars, logVars, restVars>>

LlmToolCall(task_id) ==
    /\ task_id \in DOMAIN tasks
    /\ runPc[task_id] = "llm"
    /\ ~must_cancel(task_id)
    /\ LET step == current_step[task_id]
           S1 == on_thinking(TM, task_id, step)
           S2 == on_tool_select(S1, task_id, step)
       IN Commit(on_tool_execute(S2, task_id, step))
    /\ runPc' = [runPc EXCEPT ![task_id] = "tool"]
    /\ UNCHANGED <<running_tasks, cancelReq, agentState, current_step, subPc,
                   subTask, subAt, nReceived, subLast, response, nTerminate,
                   hubVars, logVars, restVars>>

LlmContinue(task_id) ==
    /\ task_id \in DOMAIN tasks
    /\ runPc[task_id] = "llm"
    /\ ~must_cancel(task_id)
    /\ AgentEndStep(on_thinking(TM, task_id, current_step[task_id]), task_id)
    /\ UNCHANGED <<running_tasks, cancelReq, subPc, subTask, subAt, nReceived, subLast,
                   response, nTerminate,
                   hubVars, logVars, restVars>>

\* The completion call fails with a provider error.
LlmFail(task_id) ==
    /\ task_id \in DOMAIN tasks
    /\ runPc[task_id] = "llm"
    /\ ~must_cancel(task_id)
    /\ Commit(AgentFail(TM, task_id, "provider_error"))
    /\ agentState' = [agentState EXCEPT ![task_id] = "ERROR"]
    /\ runPc' = [runPc EXCEPT ![task_id] = "done"]
    /\ UNCHANGED <<running_tasks, cancelReq, current_step, subPc, subTask,
                   subAt, nReceived, subLast, response, nTerminate,
                   hubVars, logVars, restVars>>

\* The tool returns; a terminal tool ends the run.
ToolDone(task_id, terminal) ==
    /\ task_id \in DOMAIN tasks
    /\ runPc[task_id] = "tool"
    /\ ~must_cancel(task_id)
    /\ LET S1 == on_tool_result(TM, task_id, current_step[task_id])
       IN IF terminal
          THEN /\ Commit(AgentFinish(S1, task_id, "answer"))
               /\ agentState' = [agentState EXCEPT ![task_id] = "FINISHED"]
               /\ runPc' = [runPc EXCEPT ![task_id] = RunLoop("FINISHED")]
               /\ current_step' = current_step
          ELSE AgentEndStep(S1, task_id)
    /\ UNCHANGED <<running_tasks, cancelReq, subPc, subTask, subAt, nReceived, subLast,
                   response, nTerminate,
                   hubVars, logVars, restVars>>

\* CancelledError reaches the coroutine at its suspension point (or before
\* its first step).  It is no Exception, so the except clause of run_task
\* does not run: the coroutine ends without another event.
RunCancelled(task_id) ==
    /\ task_id \in DOMAIN tasks
    /\ cancelReq[task_id]
    /\ runPc[task_id] # "done"
    /\ runPc' = [runPc EXCEPT ![task_id] = "done"]
    /\ cancelReq' = [cancelReq EXCEPT ![task_id] = FALSE]
    /\ UNCHANGED <<tasks, queues, emitted, running_tasks, agentState,
                   current_step, subPc, subTask, subAt, nReceived, subLast, response,
                   nTerminate,
                   hubVars, logVars, restVars>>

\* POST /tasks/{task_id}/terminate with TaskManager.terminate_task.
Terminate(task_id) ==
    /\ nTerminate < MaxTerminate
    /\ nTerminate' = nTerminate + 1
    /\ IF task_id \notin DOMAIN tasks
       THEN /\ response' = [status |-> "not_found", task_id |-> task_id]
            /\ UNCHANGED <<tasks, queues, emitted, cancelReq>>
       ELSE IF IsRunning(task_id)
       THEN /\ cancelReq' = [cancelReq EXCEPT ![task_id] = TRUE]
            /\ Commit(terminate_events(TM, task_id))
            /\ response' = [status |-> "terminated", task_id |-> task_id]
       ELSE /\ response' = [status |-> "not_running", task_id |-> task_id]
            /\ UNCHANGED <<tasks, queues, emitted, cancelReq>>
    /\ UNCHANGED <<running_tasks, runPc, agentState, current_step, subPc,
                   subTask, subAt, nReceived, subLast,
                   hubVars, logVars, restVars>>

\* GET /tasks/{task_id}/events: event_generator up to its first queue.get().
Subscribe(s, task_id) ==
    /\ subPc[s] = "idle"
    /\ subTask' = [subTask EXCEPT ![s] = task_id]
    /\ IF task_id \in DOMAIN queues
       THEN /\ subPc' = [subPc EXCEPT ![s] = "open"]
            /\ subAt' = [subAt EXCEPT ![s] = Len(emitted[task_id])]
       ELSE /\ subPc' = [subPc EXCEPT ![s] = "closed"]
            /\ subAt' = subAt
    /\ UNCHANGED <<tasks, queues, emitted, running_tasks, runPc, cancelReq,
                   agentState, current_step, nReceived, subLast, response, nTerminate,
                   hubVars, logVars, restVars>>

\* A loop that breaks after an error event only.
IsTerminalErrorOnly(event) == event.type = "error"

\* if event["type"] == "complete": ... break / elif event["type"] == "error": ... break
IsTerminal(event) == event.type \in {"complete", "error"}

\* One round of the while loop: queue.get() returns an event, the generator
\* yields it and breaks after a complete or error event.
SubNext(s) ==
    /\ subPc[s] = "open"
    /\ queues[subTask[s]] # <<>>
    /\ LET event == Head(queues[subTask[s]])
       IN /\ queues' = [queues EXCEPT ![subTask[s]] = Tail(@)]
          /\ nReceived' = [nReceived EXCEPT ![s] =
                              IF event.id > subAt[s] THEN @ + 1 ELSE @]
          /\ subLast' = [subLast EXCEPT ![s] = event.id]
          /\ subPc' = [subPc EXCEPT ![s] =
                          IF IsTerminal(event) THEN "closed" ELSE "open"]
    /\ UNCHANGED <<tasks, emitted, running_tasks, runPc, cancelReq, agentState,
                   current_step, subTask, subAt, response, nTerminate,
                   hubVars, logVars, restVars>>

\* The client goes away: CancelledError in queue.get(), the loop breaks.
SubDisconnect(s) ==
    /\ subPc[s] = "open"
    /\ subPc' = [subPc EXCEPT ![s] = "closed"]
    /\ UNCHANGED <<tasks, queues, emitted, running_tasks, runPc, cancelReq,
                   agentState, current_step, subTask, subAt, nReceived, subLast,
                   response, nTerminate,
                   hubVars, logVars, restVars>>

\* SSELogHandler.__call__ of every sink of the logger: each records the
\* message as a step of its own task.  A sink writes to its own task only,
\* so the order in which the sinks run makes no difference to the result.
RECURSIVE sse_log(_, _)
sse_log(S, handlers) ==
    IF handlers = {} THEN S
    ELSE LET h == CHOOSE x \in handlers : \A y \in handlers : x <= y
         IN sse_log(update_task_step(S, h, 0, "log"), handlers \ {h})

\* The execution of a task makes a logger call (as cot.py line 27 does in
\* every step); the logger hands the message to all its sinks.  No sink is
\* ever removed.
LogMessage(task_id) ==
    /\ task_id \in DOMAIN tasks
    /\ runPc[task_id] \in {"llm", "tool"}
    /\ nLogs < MaxLogs
    /\ nLogs' = nLogs + 1
    /\ logBy' = task_id
    /\ Commit(sse_log(TM, log_handlers))
    /\ UNCHANGED <<running_tasks, runPc, cancelReq, agentState, current_step,
                   subPc, subTask, subAt, nReceived, subLast, response, nTerminate,
                   log_handlers, hubVars, restVars>>

\* ---- a CoTAgent (src/app/agent/cot.py) as the agent run_task drives

\* CoTAgent.max_steps
CotMaxSteps == 1

\* What llm.ask can return.
Answers == {"4", "5"}

\* emit_event of the task's agent: the events join the agent's record.
AgentEmits(task_id, evs) ==
    agentEvents' = [agentEvents EXCEPT ![task_id] = @ \o evs]

\* The coroutine starts, and the first step of the agent runs up to llm.ask:
\* the logger call of line 27 reaches every sink, step_start has no handler.
CotRunStart(task_id) ==
    /\ task_id \in DOMAIN tasks
    /\ runPc[task_id] = "scheduled"
    /\ ~must_cancel(task_id)
    /\ log_handlers' = log_handlers \cup {task_id}
    /\ LET S1 == [TM EXCEPT !.tasks[task_id].status = "running"]
           S2 == on_state_change(S1, task_id, "RUNNING")
       IN Commit(sse_log(S2, log_handlers'))
    /\ AgentEmits(task_id, <<[name |-> "step_start",
                              step |-> current_step[task_id],
                              max_steps |-> CotMaxSteps]>>)
    /\ agentState' = [agentState EXCEPT ![task_id] = "RUNNING"]
    /\ runPc' = [runPc EXCEPT ![task_id] = "llm"]
    /\ UNCHANGED <<running_tasks, cancelReq, current_step, subPc, subTask,
                   subAt, nReceived, subLast, response, nTerminate,
                   hubVars, nLogs, logBy, finishVars, busVars, toolVars, otherVars>>

\* llm.ask returns: the rest of CoTAgent.step (thinking, FINISHED,
\* task_complete), then run returns and run_task records the result.
CotAnswer(task_id, answer) ==
    /\ task_id \in DOMAIN tasks
    /\ runPc[task_id] = "llm"
    /\ ~must_cancel(task_id)
    /\ LET S1 == on_thinking(TM, task_id, current_step[task_id])
       IN Commit(AgentFinish(S1, task_id, "answer"))
    /\ AgentEmits(task_id, <<[name |-> "thinking", content |-> answer,
                              step |-> current_step[task_id]],
                             [name |-> "task_complete", results |-> <<answer>>]>>)
    /\ agentState' = [agentState EXCEPT ![task_id] = "FINISHED"]
    /\ runPc' = [runPc EXCEPT ![task_id] = RunLoop("FINISHED")]
    /\ UNCHANGED <<running_tasks, cancelReq, current_step, subPc, subTask,
                   subAt, nReceived, subLast, response, nTerminate,
                   hubVars, logVars, finishVars, busVars, toolVars, otherVars>>

\* llm.ask raises: step has no except clause, so the failure leaves it; the
\* agent goes to ERROR and emits error (4.1 step 8), run fails and run_task
\* calls fail_task.
CotFail(task_id, error) ==
    /\ task_id \in DOMAIN tasks
    /\ runPc[task_id] = "llm"
    /\ ~must_cancel(task_id)
    /\ Commit(AgentFail(TM, task_id, error))
    /\ AgentEmits(task_id, <<[name |-> "error", message |-> error]>>)
    /\ agentState' = [agentState EXCEPT ![task_id] = "ERROR"]
    /\ runPc' = [runPc EXCEPT ![task_id] = "done"]
    /\ UNCHANGED <<running_tasks, cancelReq, current_step, subPc, subTask,
                   subAt, nReceived, subLast, response, nTerminate,
                   hubVars, logVars, finishVars, busVars, toolVars, otherVars>>

\* ------------------------------------------- Part II: src/app/event.py

ClientIds == 1..MaxClients
PubIds == 1..MaxPublishers
EventIds == 1..MaxEvents

\* self.clients.discard(queue): what is left, and whether the call raised.
disconnect_client(S, queue) ==
    [clients |-> S \ {queue}, raised |-> FALSE]

\* The sequences that list every element of the set S once: the orders in
\* which list(self.clients) can come out of a set.
Orders(S) ==
    {o \in [1..Cardinality(S) -> S] : \A i, j \in 1..Cardinality(S) :
                                          i # j => o[i] # o[j]}

\* A deque that refuses the new element at capacity.
DequeAppendKeepOldest(h, e) ==
    IF Len(h) >= MaxHistory THEN h ELSE Append(h, e)

\* deque(maxlen=max_events).append: at capacity the oldest element goes.
DequeAppend(h, e) ==
    IF Len(h) >= MaxHistory THEN Append(Tail(h), e) ELSE Append(h, e)

\* asyncio.Queue.full()
QueueFull(contents, maxsize) == maxsize > 0 /\ Len(contents) >= maxsize

\* add_event without the lock.
LockIgnored == TRUE

\* "async with self._lock": the lock can be taken.
LockFree == lock = 0

\* What add_event and the subscriptions work on, as one value.
Hub == [clients |-> clients, buf |-> buf, delivered |-> delivered,
        refused |-> {}]

HubPut(H, c, e, origin) ==
    [H EXCEPT !.buf[c] = Append(@, e),
              !.delivered[c] = Append(@, [event |-> e, origin |-> origin])]

\* _notify_clients without the try/except: the put that raises ends the loop.
RECURSIVE _notify_clients_no_except(_, _, _)
_notify_clients_no_except(H, e, todo) ==
    IF todo = <<>> THEN [hub |-> H, todo |-> <<>>]
    ELSE LET c == Head(todo)
         IN IF cDead[c]
            THEN [hub |-> [H EXCEPT !.clients = @ \ {c}, !.refused = @ \cup {c}],
                  todo |-> <<>>]
            ELSE IF QueueFull(H.buf[c], cCap[c])
            THEN [hub |-> H, todo |-> todo]
            ELSE _notify_clients_no_except(HubPut(H, c, e, "live"), e, Tail(todo))

\* _notify_clients with "except Exception: pass": the client whose put raised
\* stays in the subscriber set.
RECURSIVE _notify_clients_keep_client(_, _, _)
_notify_clients_keep_client(H, e, todo) ==
    IF todo = <<>> THEN [hub |-> H, todo |-> <<>>]
    ELSE LET c == Head(todo)
         IN IF cDead[c]
            THEN _notify_clients_keep_client([H EXCEPT !.refused = @ \cup {c}],
                                             e, Tail(todo))
            ELSE IF QueueFull(H.buf[c], cCap[c])
            THEN [hub |-> H, todo |-> todo]
            ELSE _notify_clients_keep_client(HubPut(H, c, e, "live"), e, Tail(todo))

\* _notify_clients from the client at the head of todo on, as far as it gets
\* without suspending: a put on a shut-down queue raises and the client is
\* discarded, a put on a full queue suspends the call, any other put is
\* done at once.  The result is the hub and the clients still to notify.
RECURSIVE _notify_clients(_, _, _)
_notify_clients(H, e, todo) ==
    IF todo = <<>> THEN [hub |-> H, todo |-> <<>>]
    ELSE LET c == Head(todo)
         IN IF cDead[c]
            THEN _notify_clients([H EXCEPT !.clients = @ \ {c},
                                           !.refused = @ \cup {c}],
                                 e, Tail(todo))
            ELSE IF QueueFull(H.buf[c], cCap[c])
            THEN [hub |-> H, todo |-> todo]
            ELSE _notify_clients(HubPut(H, c, e, "live"), e, Tail(todo))

\* The replay loop "for event in self.events: await queue.put(event)" of
\* connect_client on a live queue, as far as it gets without suspending.
RECURSIVE replay_puts(_, _, _, _)
replay_puts(H, c, maxsize, todo) ==
    IF todo = <<>> THEN [hub |-> H, todo |-> <<>>]
    ELSE IF QueueFull(H.buf[c], maxsize)
    THEN [hub |-> H, todo |-> todo]
    ELSE replay_puts(HubPut(H, c, Head(todo), "replay"), c, maxsize, Tail(todo))

CommitHub(H) ==
    /\ clients' = H.clients
    /\ buf' = H.buf
    /\ delivered' = H.delivered

\* The end of a stretch of _notify_clients for call p: either it is through
\* and add_event releases the lock, or it is suspended in a put.
NotifyOutcome(p, e, r) ==
    /\ CommitHub(r.hub)
    /\ refused' = [refused EXCEPT ![e] = @ \cup r.hub.refused]
    /\ IF r.todo = <<>>
       THEN /\ lock' = 0
            /\ pubPc' = [pubPc EXCEPT ![p] = "idle"]
            /\ pubEvt' = [pubEvt EXCEPT ![p] = 0]
            /\ pubTodo' = [pubTodo EXCEPT ![p] = <<>>]
       ELSE /\ lock' = p
            /\ pubPc' = [pubPc EXCEPT ![p] = "blocked"]
            /\ pubEvt' = [pubEvt EXCEPT ![p] = e]
            /\ pubTodo' = [pubTodo EXCEPT ![p] = r.todo]

\* add_event: take the lock, append to the history, notify the clients.
add_event(p) ==
    /\ pubPc[p] = "idle"
    /\ LockFree
    /\ nPublished < MaxEvents
    /\ LET e == nPublished + 1
       IN /\ events' = DequeAppend(events, e)
          /\ nPublished' = e
          /\ audience' = [audience EXCEPT ![e] = clients]
          /\ \E order \in Orders(clients) :
                 NotifyOutcome(p, e, _notify_clients(Hub, e, order))
    /\ replayStale' = [c \in ClientIds |-> replayStale[c] \/ cPc[c] = "replay"]
    /\ UNCHANGED <<cPc, cKind, cCap, cDead, cReplay, replayTodo, cHist>>

\* A call of add_event with an event of any kind.
AddEvent(p) ==
    /\ add_event(p)
    /\ UNCHANGED <<taskVars, logVars, restVars>>

\* The put an add_event call is suspended in can go on: the queue has room
\* again, or it was shut down.
PubResume(p) ==
    /\ pubPc[p] = "blocked"
    /\ LET c == Head(pubTodo[p])
       IN cDead[c] \/ ~QueueFull(buf[c], cCap[c])
    /\ NotifyOutcome(p, pubEvt[p], _notify_clients(Hub, pubEvt[p], pubTodo[p]))
    /\ UNCHANGED <<events, nPublished, audience, cPc, cKind, cCap, cDead,
                   cReplay, replayTodo, replayStale, cHist, taskVars, logVars, restVars>>

\* The end of a stretch of connect_client's replay loop: through, and the
\* queue joins the clients, or suspended in a put.
ReplayOutcome(c, r) ==
    /\ buf' = r.hub.buf
    /\ delivered' = r.hub.delivered
    /\ replayTodo' = [replayTodo EXCEPT ![c] = r.todo]
    /\ replayStale' = [replayStale EXCEPT ![c] = FALSE]
    /\ IF r.todo = <<>>
       THEN /\ clients' = clients \cup {c}
            /\ cPc' = [cPc EXCEPT ![c] = "live"]
       ELSE /\ clients' = clients
            /\ cPc' = [cPc EXCEPT ![c] = "replay"]

\* connect_client(queue, replay) with a new queue of the given maxsize.
ConnectClient(c, maxsize, replay) ==
    /\ cPc[c] = "idle"
    /\ cKind' = [cKind EXCEPT ![c] = "queue"]
    /\ cCap' = [cCap EXCEPT ![c] = maxsize]
    /\ cReplay' = [cReplay EXCEPT ![c] = replay]
    /\ cHist' = [cHist EXCEPT ![c] = events]
    /\ ReplayOutcome(c, replay_puts(Hub, c, maxsize,
                                    IF replay THEN events ELSE <<>>))
    /\ UNCHANGED <<events, lock, nPublished, pubPc, pubEvt, pubTodo, cDead,
                   audience, refused, taskVars, logVars, restVars>>

\* The put connect_client is suspended in goes on.  On a shut-down queue it
\* raises.  Otherwise the event is put, and the loop asks the deque iterator
\* for the next event: that raises RuntimeError (deque mutated during
\* iteration) if add_event appended in the meantime.
ReplayResume(c) ==
    /\ cPc[c] = "replay"
    /\ cKind[c] = "queue"
    /\ cDead[c] \/ ~QueueFull(buf[c], cCap[c])
    /\ IF cDead[c]
       THEN /\ cPc' = [cPc EXCEPT ![c] = "failed"]
            /\ UNCHANGED <<clients, buf, delivered, replayTodo, replayStale>>
       ELSE LET H1 == HubPut(Hub, c, Head(replayTodo[c]), "replay")
            IN IF replayStale[c]
               THEN /\ cPc' = [cPc EXCEPT ![c] = "failed"]
                    /\ buf' = H1.buf
                    /\ delivered' = H1.delivered
                    /\ UNCHANGED <<clients, replayTodo, replayStale>>
               ELSE ReplayOutcome(c, replay_puts(H1, c, cCap[c],
                                                 Tail(replayTodo[c])))
    /\ UNCHANGED <<events, lock, nPublished, pubPc, pubEvt, pubTodo, cKind,
                   cCap, cDead, cReplay, audience, refused, cHist, taskVars, logVars, restVars>>

\* disconnect_client(queue), for a queue that was handed to connect_client.
DisconnectClient(c) ==
    /\ cKind[c] = "queue"
    /\ clients' = disconnect_client(clients, c).clients
    /\ UNCHANGED <<events, lock, nPublished, pubPc, pubEvt, pubTodo, cPc,
                   cKind, cCap, cDead, cReplay, buf, replayTodo, replayStale,
                   delivered, audience, refused, cHist, taskVars, logVars, restVars>>

\* The consumer of a client queue takes the next event.
ClientGet(c) ==
    /\ cKind[c] = "queue"
    /\ ~cDead[c]
    /\ buf[c] # <<>>
    /\ buf' = [buf EXCEPT ![c] = Tail(@)]
    /\ UNCHANGED <<events, clients, lock, nPublished, pubPc, pubEvt, pubTodo,
                   cPc, cKind, cCap, cDead, cReplay, replayTodo, replayStale,
                   delivered, audience, refused, cHist, taskVars, logVars, restVars>>

\* The consumer of a client queue goes away and shuts its queue down.
QueueShutdown(c) ==
    /\ cKind[c] = "queue"
    /\ ~cDead[c]
    /\ cDead' = [cDead EXCEPT ![c] = TRUE]
    /\ UNCHANGED <<events, clients, lock, nPublished, pubPc, pubEvt, pubTodo,
                   cPc, cKind, cCap, cReplay, buf, replayTodo, replayStale,
                   delivered, audience, refused, cHist, taskVars, logVars, restVars>>

\* event_json_generator(replay), up to its first suspension: the first yield
\* of the replay loop, or, with nothing to replay, queue.get() on its new
\* queue, which is then among the clients.
GenStart(c, replay) ==
    /\ cPc[c] = "idle"
    /\ cKind' = [cKind EXCEPT ![c] = "gen"]
    /\ cReplay' = [cReplay EXCEPT ![c] = replay]
    /\ cHist' = [cHist EXCEPT ![c] = events]
    /\ replayStale' = [replayStale EXCEPT ![c] = FALSE]
    /\ IF replay /\ events # <<>>
       THEN /\ delivered' = [delivered EXCEPT ![c] =
                                Append(@, [event |-> Head(events),
                                           origin |-> "replay"])]
            /\ replayTodo' = [replayTodo EXCEPT ![c] = Tail(events)]
            /\ cPc' = [cPc EXCEPT ![c] = "replay"]
            /\ clients' = clients
       ELSE /\ clients' = clients \cup {c}
            /\ cPc' = [cPc EXCEPT ![c] = "live"]
            /\ UNCHANGED <<delivered, replayTodo>>
    /\ UNCHANGED <<events, lock, nPublished, pubPc, pubEvt, pubTodo, cCap,
                   cDead, buf, audience, refused, taskVars, logVars, restVars>>

\* The consumer asks the generator for the next item.  In the replay loop
\* the deque iterator raises RuntimeError if add_event appended since the
\* last yield; at the end of the history the generator makes its queue and
\* adds it to the clients.  After that it yields what queue.get() returns.
GenNext(c) ==
    /\ cKind[c] = "gen"
    /\ \/ /\ cPc[c] = "replay"
          /\ replayStale[c]
          /\ cPc' = [cPc EXCEPT ![c] = "failed"]
          /\ UNCHANGED <<clients, buf, delivered, replayTodo>>
       \/ /\ cPc[c] = "replay"
          /\ ~replayStale[c]
          /\ replayTodo[c] # <<>>
          /\ delivered' = [delivered EXCEPT ![c] =
                              Append(@, [event |-> Head(replayTodo[c]),
                                         origin |-> "replay"])]
          /\ replayTodo' = [replayTodo EXCEPT ![c] = Tail(@)]
          /\ UNCHANGED <<clients, buf, cPc>>
       \/ /\ cPc[c] = "replay"
          /\ ~replayStale[c]
          /\ replayTodo[c] = <<>>
          /\ clients' = clients \cup {c}
          /\ cPc' = [cPc EXCEPT ![c] = "live"]
          /\ UNCHANGED <<buf, delivered, replayTodo>>
       \/ /\ cPc[c] = "live"
          /\ buf[c] # <<>>
          /\ buf' = [buf EXCEPT ![c] = Tail(@)]
          /\ UNCHANGED <<clients, delivered, replayTodo, cPc>>
    /\ UNCHANGED <<events, lock, nPublished, pubPc, pubEvt, pubTodo, cKind,
                   cCap, cDead, cReplay, replayStale, audience, refused, cHist,
                   taskVars, logVars, restVars>>

\* The consumer closes the generator: in the live loop the finally clause
\* discards the queue.
GenClose(c) ==
    /\ cKind[c] = "gen"
    /\ cPc[c] \in {"replay", "live"}
    /\ cPc' = [cPc EXCEPT ![c] = "closed"]
    /\ clients' = clients \ {c}
    /\ UNCHANGED <<events, lock, nPublished, pubPc, pubEvt, pubTodo, cKind,
                   cCap, cDead, cReplay, buf, replayTodo, replayStale,
                   delivered, audience, refused, cHist, taskVars, logVars, restVars>>

\* ------------------------------------ Part III: src/app/tool/finish.py

PlanIds == 1..MaxPlans
PlanStatuses == {"not_started", "in_progress", "completed", "blocked"}
Results == {"", "done"}

\* Python's None, where a text may be absent.
None == "None"

\* A URL is a host and an object key; url=None is NoUrl.
NoUrl == [host |-> None, key |-> <<>>]

NoToolResult == [output |-> None, error |-> None]

\* ---- the planning tool (app/tool/planning.py is not part of the sources:
\* ---- plans follow sections 3 and 4.3 of the specification)

\* create(plan_id, steps): fails if the plan exists; the new plan becomes the
\* current one, every step not_started.
PlanCreate(plan_id, n) ==
    /\ plan_id \notin DOMAIN plans
    /\ plans' = plans @@ (plan_id :> [i \in 1..n |-> "not_started"])
    /\ current_plan_id' = plan_id
    /\ UNCHANGED <<planning_tool, task_complete, last_result, tool_result,
                   finish_call, wasRejected, taskVars, hubVars, logVars, agentVars, busVars, toolVars, otherVars>>

\* mark_step(plan_id, index, status): fails if index is outside the steps.
PlanMarkStep(plan_id, index, status) ==
    /\ plan_id \in DOMAIN plans
    /\ index \in 1..Len(plans[plan_id])
    /\ plans[plan_id][index] # status
    /\ plans' = [plans EXCEPT ![plan_id][index] = status]
    /\ UNCHANGED <<planning_tool, current_plan_id, task_complete, last_result,
                   tool_result, finish_call, wasRejected, taskVars, hubVars,
                   logVars, agentVars, busVars, toolVars, otherVars>>

\* FinishTool.set_planning_tool
set_planning_tool ==
    /\ ~planning_tool
    /\ planning_tool' = TRUE
    /\ UNCHANGED <<current_plan_id, plans, task_complete, last_result,
                   tool_result, finish_call, wasRejected, taskVars, hubVars,
                   logVars, agentVars, busVars, toolVars, otherVars>>

\* A count of the steps nobody has begun.
incomplete_steps_not_started(step_statuses) ==
    Cardinality({i \in 1..Len(step_statuses) : step_statuses[i] = "not_started"})

\* execute: if not result: result = "Task completed."
result_or_default(result) == IF result = "" THEN "Task completed." ELSE result

\* execute: sum(1 for status in step_statuses if status != "completed")
incomplete_steps(step_statuses) ==
    Cardinality({i \in 1..Len(step_statuses) : step_statuses[i] # "completed"})

\* An execute that finishes whatever the plan says.
FinishRejectsNever(force) == FALSE

\* execute: the call is turned down, for incomplete steps of the current plan.
FinishRejects(force) ==
    /\ planning_tool /\ current_plan_id # 0
    /\ current_plan_id \in DOMAIN plans
    /\ incomplete_steps(plans[current_plan_id]) > 0 /\ ~force

\* FinishTool._set_task_complete
_set_task_complete ==
    /\ task_complete' = TRUE
    /\ UNCHANGED <<planning_tool, current_plan_id, plans, last_result,
                   tool_result, finish_call, wasRejected, taskVars, hubVars,
                   logVars, agentVars, busVars, toolVars, otherVars>>

\* An execute that keeps the result of a call it turns down.
FinishExecute_keeps_result(result, force) ==
    /\ finish_call.n < MaxFinish
    /\ finish_call' = [n |-> finish_call.n + 1, result |-> result, force |-> force]
    /\ LET text == result_or_default(result)
       IN IF FinishRejects(force)
          THEN /\ tool_result' =
                     [output |-> [warning |-> incomplete_steps(plans[current_plan_id]),
                                  total |-> Len(plans[current_plan_id])],
                      error |-> "Task has incomplete steps, not finishing yet."]
               /\ wasRejected' = TRUE
               /\ last_result' = text
               /\ UNCHANGED task_complete
          ELSE /\ task_complete' = TRUE
               /\ last_result' = text
               /\ tool_result' = [output |-> text, error |-> None]
               /\ wasRejected' = wasRejected
    /\ UNCHANGED <<planning_tool, current_plan_id, plans, taskVars, hubVars,
                   logVars, agentVars, busVars, toolVars, otherVars>>

\* FinishTool.execute(result, force)
FinishExecute(result, force) ==
    /\ finish_call.n < MaxFinish
    /\ finish_call' = [n |-> finish_call.n + 1, result |-> result, force |-> force]
    /\ LET text == result_or_default(result)
       IN IF FinishRejects(force)
          THEN /\ tool_result' =
                     [output |-> [warning |-> incomplete_steps(plans[current_plan_id]),
                                  total |-> Len(plans[current_plan_id])],
                      error |-> "Task has incomplete steps, not finishing yet."]
               /\ wasRejected' = TRUE
               /\ UNCHANGED <<task_complete, last_result>>
          ELSE /\ task_complete' = TRUE
               /\ last_result' = text
               /\ tool_result' = [output |-> text, error |-> None]
               /\ wasRejected' = wasRejected
    /\ UNCHANGED <<planning_tool, current_plan_id, plans, taskVars, hubVars,
                   logVars, agentVars, busVars, toolVars, otherVars>>

\* A finish tool without planning tool, and no plan.
NoPlans ==
    /\ planning_tool = FALSE
    /\ current_plan_id = 0
    /\ plans = <<>>

\* Any state of the fields execute reads: a planning tool attached or not,
\* its _current_plan_id None (0), the id of a plan or an id plans does not
\* hold, and plans with any statuses, also with no step.
AnyPlans ==
    /\ planning_tool \in BOOLEAN
    /\ current_plan_id \in 0..MaxPlans + 1
    /\ \E ids \in SUBSET PlanIds :
           plans \in [ids -> UNION {[1..n -> PlanStatuses] : n \in 0..MaxPlanSteps}]

\* No event was built.
NoEvent == [type |-> None, tool |-> None, tool_status |-> None, tool_detail |-> None]

\* No think call has been made.
NoThink == [pc |-> "idle", original_prompt |-> "", browser_in_use |-> FALSE,
            exit |-> "none"]

InitOther ==
    /\ tasks = <<>>
    /\ queues = <<>>
    /\ emitted = <<>>
    /\ running_tasks = {}
    /\ runPc = [t \in TaskIds |-> "none"]
    /\ cancelReq = [t \in TaskIds |-> FALSE]
    /\ agentState = [t \in TaskIds |-> "IDLE"]
    /\ current_step = [t \in TaskIds |-> 0]
    /\ subPc = [s \in SubIds |-> "idle"]
    /\ subTask = [s \in SubIds |-> 0]
    /\ subAt = [s \in SubIds |-> 0]
    /\ nReceived = [s \in SubIds |-> 0]
    /\ subLast = [s \in SubIds |-> 0]
    /\ response = NoResponse
    /\ nTerminate = 0
    /\ events = <<>>
    /\ clients = {}
    /\ lock = 0
    /\ nPublished = 0
    /\ pubPc = [p \in PubIds |-> "idle"]
    /\ pubEvt = [p \in PubIds |-> 0]
    /\ pubTodo = [p \in PubIds |-> <<>>]
    /\ cPc = [c \in ClientIds |-> "idle"]
    /\ cKind = [c \in ClientIds |-> "none"]
    /\ cCap = [c \in ClientIds |-> 0]
    /\ cDead = [c \in ClientIds |-> FALSE]
    /\ cReplay = [c \in ClientIds |-> FALSE]
    /\ buf = [c \in ClientIds |-> <<>>]
    /\ replayTodo = [c \in ClientIds |-> <<>>]
    /\ replayStale = [c \in ClientIds |-> FALSE]
    /\ delivered = [c \in ClientIds |-> <<>>]
    /\ audience = [e \in EventIds |-> {}]
    /\ refused = [e \in EventIds |-> {}]
    /\ cHist = [c \in ClientIds |-> <<>>]
    /\ log_handlers = {}
    /\ nLogs = 0
    /\ logBy = 0
    /\ task_complete = FALSE
    /\ last_result = None
    /\ tool_result = NoToolResult
    /\ finish_call = [n |-> 0, result |-> "", force |-> FALSE]
    /\ wasRejected = FALSE
    /\ agentEvents = [t \in TaskIds |-> <<>>]
    /\ task_event_queues = <<>>
    /\ bus_buf = <<>>
    /\ bus_task = <<>>
    /\ nEmits = 0
    /\ last_puts = <<>>
    /\ tool_call = [tool |-> None]
    /\ tool_outcome = [returned |-> FALSE,
                       result |-> [output |-> None, error |-> None, url |-> NoUrl],
                       raised |-> None, attempts |-> <<>>]
    /\ bucket = {}
    /\ nCalls = 0
    /\ event_callbacks = [ty \in {"flow_step"} |-> <<>>]
    /\ flow_task_id = 0
    /\ flow_emit = [pc |-> "idle", type |-> "", i |-> 0, forwarded |-> FALSE]
    /\ flow_calls = <<>>
    /\ nFlowEmits = 0
    /\ next_step_prompt = "NEXT_STEP_PROMPT"
    /\ messages = <<>>
    /\ think = NoThink
    /\ nThinks = 0
    /\ tr_call = [tool_name |-> None, args |-> None, result |-> None]
    /\ tr_outcome = [raised |-> None, event |-> NoEvent, id |-> 0]

Init == InitOther /\ NoPlans

\* The task registry and the executions, without event streams.
Next ==
    \/ CreateTask
    \/ \E t \in TaskIds : RunStart(t)
    \/ \E t \in TaskIds : LlmAnswer(t)
    \/ \E t \in TaskIds : LlmToolCall(t)
    \/ \E t \in TaskIds : LlmContinue(t)
    \/ \E t \in TaskIds : LlmFail(t)
    \/ \E t \in TaskIds, terminal \in BOOLEAN : ToolDone(t, terminal)
    \/ \E t \in TaskIds : RunCancelled(t)
    \/ \E t \in TaskIds \cup {MaxTasks + 1} : Terminate(t)

Spec == Init /\ [][Next]_vars

\* The same with the logger calls of the executions.
LogNext ==
    \/ Next
    \/ \E t \in TaskIds : LogMessage(t)

LogSpec == Init /\ [][LogNext]_vars

\* The task registry with chain-of-thought agents.
CotNext ==
    \/ CreateTask
    \/ \E t \in TaskIds : CotRunStart(t)
    \/ \E t \in TaskIds, answer \in Answers : CotAnswer(t, answer)
    \/ \E t \in TaskIds, error \in Errors : CotFail(t, error)
    \/ \E t \in TaskIds : RunCancelled(t)
    \/ \E t \in TaskIds \cup {MaxTasks + 1} : Terminate(t)

CotSpec == Init /\ [][CotNext]_vars

\* The same with event streams, on StreamTasks tasks.
StreamNext ==
    \/ CreateTask /\ Cardinality(DOMAIN tasks) < StreamTasks
    \/ \E t \in TaskIds : RunStart(t)
    \/ \E t \in TaskIds : LlmAnswer(t)
    \/ \E t \in TaskIds : LlmToolCall(t)
    \/ \E t \in TaskIds : LlmContinue(t)
    \/ \E t \in TaskIds : LlmFail(t)
    \/ \E t \in TaskIds, terminal \in BOOLEAN : ToolDone(t, terminal)
    \/ \E t \in TaskIds : RunCancelled(t)
    \/ \E t \in TaskIds \cup {MaxTasks + 1} : Terminate(t)
    \/ \E s \in SubIds, t \in TaskIds \cup {MaxTasks + 1} : Subscribe(s, t)
    \/ \E s \in SubIds : SubNext(s)
    \/ \E s \in SubIds : SubDisconnect(s)

StreamSpec == Init /\ [][StreamNext]_vars

\* The event hub: publishers, client queues and generators.
HubNext ==
    \/ \E p \in PubIds : AddEvent(p)
    \/ \E p \in PubIds : PubResume(p)
    \/ \E c \in ClientIds, maxsize \in {0, QueueSize}, replay \in BOOLEAN :
           ConnectClient(c, maxsize, replay)
    \/ \E c \in ClientIds : ReplayResume(c)
    \/ \E c \in ClientIds : DisconnectClient(c)
    \/ \E c \in ClientIds : ClientGet(c)
    \/ \E c \in ClientIds : QueueShutdown(c)
    \/ \E c \in ClientIds, replay \in BOOLEAN : GenStart(c, replay)
    \/ \E c \in ClientIds : GenNext(c)
    \/ \E c \in ClientIds : GenClose(c)

HubSpec == Init /\ [][HubNext]_vars

\* The finish tool and the plans.
FinishNext ==
    \/ set_planning_tool
    \/ \E plan_id \in PlanIds, n \in 1..MaxPlanSteps : PlanCreate(plan_id, n)
    \/ \E plan_id \in PlanIds, index \in 1..MaxPlanSteps, status \in PlanStatuses :
           PlanMarkStep(plan_id, index, status)
    \/ \E result \in Results, force \in BOOLEAN : FinishExecute(result, force)

FinishSpec == Init /\ [][FinishNext]_vars

\* Finish calls on any state of the planning tool.
FinishCallNext ==
    \/ \E result \in Results, force \in BOOLEAN : FinishExecute(result, force)
    \/ _set_task_complete

FinishCallInit == InitOther /\ AnyPlans

FinishCallSpec == FinishCallInit /\ [][FinishCallNext]_vars

\* ------------------------------------------ Part IV: the event bus (event_bus.py)

BusQueueIds == 1..MaxBusQueues
BusEventTypes == {"think", "tool"}

Elems(seq) == {seq[i] : i \in 1..Len(seq)}

\* list.remove(x): the list without the first x; ValueError if x is not in it.
ListRemove(seq, x) ==
    IF x \in Elems(seq)
    THEN LET k == CHOOSE i \in 1..Len(seq) :
                     seq[i] = x /\ \A j \in 1..(i - 1) : seq[j] # x
         IN [list |-> SubSeq(seq, 1, k - 1) \o SubSeq(seq, k + 1, Len(seq)),
             raised |-> FALSE]
    ELSE [list |-> seq, raised |-> TRUE]

\* EventBus.register_task on the dict Q, for the new queue
register_task(Q, task_id, queue) ==
    IF task_id \notin DOMAIN Q
    THEN Q @@ (task_id :> <<queue>>)
    ELSE [Q EXCEPT ![task_id] = Append(@, queue)]

\* An unregister_queue that removes without looking first.
unregister_queue_unguarded(Q, task_id, queue) ==
    IF task_id \in DOMAIN Q
    THEN [queues |-> [Q EXCEPT ![task_id] = ListRemove(@, queue).list],
          raised |-> ListRemove(Q[task_id], queue).raised]
    ELSE [queues |-> Q, raised |-> FALSE]

\* EventBus.unregister_queue on the dict Q: the dict afterwards, and whether
\* the call raised.
unregister_queue(Q, task_id, queue) ==
    IF task_id \in DOMAIN Q
    THEN IF queue \in Elems(Q[task_id])
         THEN [queues |-> [Q EXCEPT ![task_id] = ListRemove(@, queue).list],
               raised |-> ListRemove(Q[task_id], queue).raised]
         ELSE [queues |-> Q, raised |-> FALSE]
    ELSE [queues |-> Q, raised |-> FALSE]

RegisterTask(task_id) ==
    /\ Len(bus_buf) < MaxBusQueues
    /\ LET queue == Len(bus_buf) + 1
       IN /\ task_event_queues' = register_task(task_event_queues, task_id, queue)
          /\ bus_buf' = Append(bus_buf, <<>>)
          /\ bus_task' = Append(bus_task, task_id)
    /\ UNCHANGED <<nEmits, last_puts, taskVars, hubVars, logVars, finishVars,
                   agentVars, toolVars, otherVars>>

\* unregister_queue(task_id, queue) with a queue register_task returned
\* at some time, for this task or another.
UnregisterQueue(task_id, queue) ==
    /\ queue \in 1..Len(bus_buf)
    /\ task_event_queues' = unregister_queue(task_event_queues, task_id, queue).queues
    /\ UNCHANGED <<bus_buf, bus_task, nEmits, last_puts, taskVars, hubVars,
                   logVars, finishVars, agentVars, toolVars, otherVars>>

\* An emit that puts the event on every queue the bus ever made.
emit_queues_of_all_tasks(Q, task_id) == [q \in 1..Len(bus_buf) |-> q]

\* EventBus.emit: the queues the loop puts the event on, in the order of the
\* loop; none if the task id is not in the dict.
emit_queues(Q, task_id) ==
    IF task_id \notin DOMAIN Q THEN <<>> ELSE Q[task_id]

\* await queue.put(event) for each queue of the sequence, one after the
\* other: the queues are unbounded, no put suspends.
RECURSIVE put_each(_, _, _)
put_each(bufs, qs, event) ==
    IF qs = <<>> THEN bufs
    ELSE put_each([bufs EXCEPT ![Head(qs)] = Append(@, event)], Tail(qs), event)

\* The event emit builds.  The payload tells the calls apart and names the
\* task the caller emitted it for.
BusEvent(task_id, event_type, n) ==
    [type |-> event_type, data |-> [n |-> n, task_id |-> task_id]]

\* EventBus.emit(task_id, event_type, data)
BusEmit(task_id, event_type) ==
    /\ nEmits < MaxEmits
    /\ nEmits' = nEmits + 1
    /\ last_puts' = emit_queues(task_event_queues, task_id)
    /\ bus_buf' = put_each(bus_buf, emit_queues(task_event_queues, task_id),
                           BusEvent(task_id, event_type, nEmits + 1))
    /\ UNCHANGED <<task_event_queues, bus_task, taskVars, hubVars, logVars,
                   finishVars, agentVars, toolVars, otherVars>>

\* The event bus, with clients of the event hub that come and go.
BusNext ==
    \/ \E t \in TaskIds : RegisterTask(t)
    \/ \E t \in TaskIds \cup {MaxTasks + 1}, q \in BusQueueIds : UnregisterQueue(t, q)
    \/ \E t \in TaskIds \cup {MaxTasks + 1}, ty \in BusEventTypes : BusEmit(t, ty)
    \/ \E c \in ClientIds, replay \in BOOLEAN : ConnectClient(c, 0, replay)
    \/ \E c \in ClientIds : DisconnectClient(c)

BusSpec == Init /\ [][BusNext]_vars

\* ------------------------- Part V: src/app/tool (upload and verify tools)

\* ToolResult(output=..., error=..., url=...)
ToolResult(output, error, url) == [output |-> output, error |-> error, url |-> url]

\* How a call ends: with a returned value or with a raised exception, after
\* the upload requests it sent to the storage (the object keys, in order).
Returned(result, attempts) ==
    [returned |-> TRUE, result |-> result, raised |-> None, attempts |-> attempts]

Raised(exception, attempts) ==
    [returned |-> FALSE, result |-> ToolResult(None, None, NoUrl),
     raised |-> exception, attempts |-> attempts]

\* The arguments of the upload tools.
FilePaths == {"", "index.html", "missing.txt"}
Contents == {"", "<html>", "text"}
FileNames == {"", "page.html"}
\* A directory is the sequence of the parts its "/" separate: "" is <<>>,
\* "games/" is <<"games", "">>.
Directories == {<<>>, <<"games", "">>}

UploadInputs ==
    [file_path : FilePaths, content : Contents, file_name : FileNames,
     directory : Directories]

\* The local files that exist: open() raises FileNotFoundError on any other.
LocalFiles == {"index.html", "site/index.html", "site/app.js", "site/css/style.css",
               "site/.env"}

FileExists(file_path) == file_path \in LocalFiles

\* os.path.basename(file_path)
basename(file_path) ==
    CASE file_path = "site/index.html" -> "index.html"
      [] file_path = "site/app.js" -> "app.js"
      [] file_path = "site/css/style.css" -> "style.css"
      [] file_path = "site/.env" -> ".env"
      [] OTHER -> file_path

\* f"upload_{uuid.uuid4().hex[:8]}" with ".html" or ".txt"
GeneratedName(content) ==
    IF content = "<html>" THEN "upload_1.html" ELSE "upload_1.txt"

\* MIME_TYPES.get(ext, "application/octet-stream")
_get_mime_type(file_name) ==
    CASE file_name \in {"index.html", "page.html", "upload_1.html"} -> "text/html"
      [] file_name = "upload_1.txt" -> "text/plain"
      [] file_name = "style.css" -> "text/css"
      [] file_name = "app.js" -> "application/javascript"
      [] OTHER -> "application/octet-stream"

\* directory.strip("/"): without the empty parts at its ends.
RECURSIVE strip_slashes(_)
strip_slashes(directory) ==
    IF directory = <<>> THEN <<>>
    ELSE IF Head(directory) = "" THEN strip_slashes(Tail(directory))
    ELSE IF directory[Len(directory)] = ""
    THEN strip_slashes(SubSeq(directory, 1, Len(directory) - 1))
    ELSE directory

\* The file name and the key the try block of execute works out.
UploadName(in) ==
    IF in.file_name # "" THEN in.file_name
    ELSE IF in.file_path # "" THEN basename(in.file_path)
    ELSE GeneratedName(in.content)

\* key = file_name, or f"{directory}/{file_name}" with the stripped directory
UploadKey(in) ==
    IF in.directory # <<>>
    THEN strip_slashes(in.directory) \o <<UploadName(in)>>
    ELSE <<UploadName(in)>>

\* What the storage service can answer to one request.
R2Answers == {"ok", "ClientError", "EndpointConnectionError"}
CosAnswers == {"ok", "CosServiceError", "CosClientError", "ConnectionError"}

\* The try block of R2UploadTool.execute.
R2UploadBody(in, env) ==
    LET key == UploadKey(in)
        url == [host |-> "r2", key |-> key]
    IN IF in.file_path # "" /\ ~FileExists(in.file_path)
       THEN Raised("FileNotFoundError", <<>>)
       ELSE IF env.upload # "ok"
       THEN Raised(env.upload, <<key>>)
       ELSE Returned(ToolResult("File uploaded successfully", None, url), <<key>>)

\* R2UploadTool.execute without the last except clause.
R2UploadTool_execute_client_error_only(in, config_complete, env) ==
    IF in.file_path = "" /\ in.content = ""
    THEN Returned(ToolResult("Upload failed",
                             "Must provide either file_path or content parameter",
                             NoUrl), <<>>)
    ELSE IF ~config_complete
    THEN Returned(ToolResult("Upload failed", "R2 configuration incomplete", NoUrl),
                  <<>>)
    ELSE LET body == R2UploadBody(in, env)
         IN IF body.raised = "ClientError"
            THEN Returned(ToolResult("Upload failed", "R2 client error", NoUrl),
                          body.attempts)
            ELSE body

R2UploadTool_execute(in, config_complete, env) ==
    IF in.file_path = "" /\ in.content = ""
    THEN Returned(ToolResult("Upload failed",
                             "Must provide either file_path or content parameter",
                             NoUrl), <<>>)
    ELSE IF ~config_complete
    THEN Returned(ToolResult("Upload failed", "R2 configuration incomplete", NoUrl),
                  <<>>)
    ELSE LET body == R2UploadBody(in, env)
         IN IF body.raised = None THEN body
            ELSE IF body.raised = "ClientError"
            THEN Returned(ToolResult("Upload failed", "R2 client error", NoUrl),
                          body.attempts)
            ELSE Returned(ToolResult("Upload failed", "Error uploading to R2", NoUrl),
                          body.attempts)

\* The try block of COSUploadTool.execute: the upload, then put_object_acl.
COSUploadBody(in, env) ==
    LET key == UploadKey(in)
        url == [host |-> "cos", key |-> key]
    IN IF in.file_path # "" /\ ~FileExists(in.file_path)
       THEN Raised("CosClientError", <<>>)
       ELSE IF env.upload # "ok"
       THEN Raised(env.upload, <<key>>)
       ELSE IF env.acl # "ok"
       THEN Raised(env.acl, <<key>>)
       ELSE Returned(ToolResult("File uploaded successfully", None, url), <<key>>)

COSUploadTool_execute(in, config_complete, env) ==
    IF in.file_path = "" /\ in.content = ""
    THEN Returned(ToolResult("Upload failed",
                             "Must provide either file_path or content parameter",
                             NoUrl), <<>>)
    ELSE IF ~config_complete
    THEN Returned(ToolResult("Upload failed", "COS configuration incomplete", NoUrl),
                  <<>>)
    ELSE LET body == COSUploadBody(in, env)
         IN IF body.raised = None THEN body
            ELSE IF body.raised = "CosServiceError"
            THEN Returned(ToolResult("Upload failed", "COS service error", NoUrl),
                          body.attempts)
            ELSE IF body.raised = "CosClientError"
            THEN Returned(ToolResult("Upload failed", "COS client error", NoUrl),
                          body.attempts)
            ELSE Returned(ToolResult("Upload failed", "Error uploading to COS", NoUrl),
                          body.attempts)

\* The objects an upload call has stored: what it sent, if the storage took it.
Stored(outcome, env) ==
    IF env.upload = "ok" THEN Elems(outcome.attempts) ELSE {}

\* The arguments of verify_website: the URL, and for each expected content
\* and each required resource whether the page has it.
Urls == {"", "example.com", "https://example.com"}
Findings == {<<>>, <<TRUE>>, <<FALSE>>, <<TRUE, FALSE>>, <<FALSE, FALSE>>}

VerifyInputs ==
    [url : Urls, expected_content : Findings, required_resources : Findings]

\* What session.get and response.text() can do.
HttpAnswers == {"200", "404", "ClientError", "TimeoutError", "UnicodeDecodeError"}

\* if not url.startswith(("http://", "https://")): url = f"https://{url}"
NormalizeUrl(url) ==
    CASE url = "" -> "https://"
      [] url = "example.com" -> "https://example.com"
      [] OTHER -> url

CountOf(seq, b) == Cardinality({i \in 1..Len(seq) : seq[i] = b})

\* issue_count <= 2 and success_count > issue_count
MinorIssues == 2

\* The summary of a page that was fetched: successful without issues, or
\* with few issues and more successes than issues.
VerifySummary(in, url) ==
    LET issue_count == CountOf(in.expected_content, FALSE)
                       + CountOf(in.required_resources, FALSE)
        success_count == 1 + CountOf(in.expected_content, TRUE)
                           + CountOf(in.required_resources, TRUE)
        success == \/ issue_count = 0
                   \/ issue_count <= MinorIssues /\ success_count > issue_count
    IN ToolResult(IF issue_count = 0 THEN "Verification successful"
                  ELSE IF success THEN "Verification mostly successful"
                  ELSE "Verification failed with significant issues",
                  IF success THEN None ELSE "issues found during verification",
                  [host |-> url, key |-> <<>>])

\* VerifyWebsiteTool.execute; a URL without a host makes session.get raise
\* InvalidURL, a ClientError.
VerifyWebsiteTool_execute(in, env) ==
    LET url == NormalizeUrl(in.url)
        http == IF url = "https://" THEN "ClientError" ELSE env.http
    IN CASE http = "200" -> Returned(VerifySummary(in, url), <<>>)
         [] http = "404" ->
                Returned(ToolResult("Verification failed", "HTTP Status 404", NoUrl), <<>>)
         [] http = "ClientError" ->
                Returned(ToolResult("Verification failed", "Connection error", NoUrl), <<>>)
         [] http = "TimeoutError" ->
                Returned(ToolResult("Verification failed", "Connection timeout", NoUrl), <<>>)
         [] OTHER ->
                Returned(ToolResult("Verification failed", "Error verifying website",
                                    NoUrl), <<>>)

\* ---- deploy_website (src/app/tool/deploy/deploy_website_tool.py)

\* A path one of whose names is longer than the file system allows.
LongName == "aaaaaaaa...(300 characters)"

\* The arguments of deploy_website.
Folders == {"", "site", "empty", "notes.txt", "nosuch", LongName}
SiteNames == {"", "demo"}

DeployInputs == [folder_path : Folders, site_name : SiteNames]

\* What os.stat finds at the path: a directory, a file, nothing, or a name
\* it refuses (ENAMETOOLONG).
Stat(folder_path) ==
    CASE folder_path \in {"site", "empty"} -> "dir"
      [] folder_path = "notes.txt" -> "file"
      [] folder_path = LongName -> "ENAMETOOLONG"
      [] OTHER -> "ENOENT"

\* The files folder_path.glob("**/*") finds besides index.html: path, path
\* relative to the folder, the parts of the relative parent directory, name.
OtherFiles(folder_path) ==
    IF folder_path = "site"
    THEN {[path |-> "site/app.js", rel |-> "app.js", parent |-> <<>>,
           name |-> "app.js"],
          [path |-> "site/css/style.css", rel |-> "css/style.css",
           parent |-> <<"css">>, name |-> "style.css"],
          [path |-> "site/.env", rel |-> ".env", parent |-> <<>>, name |-> ".env"]}
    ELSE {}

\* any(part.startswith(".") for part in file_path.parts)
Hidden(file) == file.name = ".env"

\* index_path = folder_path / "index.html"
IndexPath(folder_path) ==
    IF folder_path = "site" THEN "site/index.html" ELSE "no index.html"

\* if not index_path.exists()
index_missing(folder_path) == ~FileExists(IndexPath(folder_path))

\* f"site-{uuid.uuid4().hex[:8]}" if no site name was given
SiteName(site_name) == IF site_name = "" THEN "site-1" ELSE site_name

\* site_path = f"websites/{site_name}"
SitePath(site_name) == <<"websites", SiteName(site_name)>>

\* The call of r2_upload_tool.execute for one file of the folder.
UploadFile(path, directory, name, config_complete, answers) ==
    R2UploadTool_execute([file_path |-> path, content |-> "", file_name |-> name,
                          directory |-> directory],
                         config_complete, [upload |-> answers[path]])

\* A loop that a failed upload ends.
loop_over_on_error(files, acc) == files = <<>> \/ acc.errors # <<>>

\* for file_path in folder_path.glob("**/*"): the loop ends when glob has no
\* more files; errors.append(...) is followed by the next round.
loop_over(files, acc) == files = <<>>

\* The loop over the other files, in the order glob yields them: what was
\* uploaded, what failed, the requests sent and the objects stored.
RECURSIVE upload_others(_, _, _, _, _)
upload_others(files, site_path, config_complete, answers, acc) ==
    IF loop_over(files, acc) THEN acc
    ELSE LET file == Head(files)
             r == UploadFile(file.path, site_path \o file.parent, file.name,
                             config_complete, answers)
             failed == ~r.returned \/ r.result.error # None
             next == IF Hidden(file) THEN acc
                     ELSE [uploaded |-> IF failed THEN acc.uploaded
                                        ELSE Append(acc.uploaded, file.rel),
                           errors |-> IF failed THEN Append(acc.errors, file.rel)
                                      ELSE acc.errors,
                           attempts |-> acc.attempts \o r.attempts,
                           stored |-> acc.stored \cup
                                          Stored(r, [upload |-> answers[file.path]])]
         IN upload_others(Tail(files), site_path, config_complete, answers, next)

\* An upload of index.html whose error is not looked at.
index_failed_ignored(result) == FALSE

\* if result.error: after the upload of index.html
index_failed(result) == result.result.error # None

\* What a deployment reports besides its result.
Deployment(outcome, uploaded, errors, stored) ==
    outcome @@ [uploaded |-> uploaded, errors |-> errors, stored |-> stored]

\* DeployWebsiteTool.execute.  env.answers is what the storage answers for
\* each file, env.order the order of glob, env.stat_raises whether
\* Path.exists() raises the OSError of os.stat that is neither ENOENT nor
\* ENOTDIR (CPython up to 3.13) or returns False.
DeployWebsiteTool_execute(in, config_complete, env) ==
    IF in.folder_path = ""
    THEN Deployment(Returned(ToolResult("Deployment failed", "Folder path is required",
                                        NoUrl), <<>>), <<>>, <<>>, {})
    ELSE IF Stat(in.folder_path) = "ENAMETOOLONG" /\ env.stat_raises
    THEN Deployment(Raised("OSError", <<>>), <<>>, <<>>, {})
    ELSE IF Stat(in.folder_path) # "dir"
    THEN Deployment(Returned(ToolResult("Deployment failed", "Directory not found",
                                        NoUrl), <<>>), <<>>, <<>>, {})
    ELSE IF index_missing(in.folder_path)
    THEN Deployment(Returned(ToolResult("Deployment failed",
                                        "index.html not found in folder", NoUrl),
                             <<>>), <<>>, <<>>, {})
    ELSE LET site_path == SitePath(in.site_name)
             index_path == IndexPath(in.folder_path)
             result == UploadFile(index_path, site_path, "index.html",
                                  config_complete, env.answers)
             index_stored == Stored(result, [upload |-> env.answers[index_path]])
         IN IF ~result.returned
            THEN Deployment(Returned(ToolResult("Deployment failed",
                                                "Error deploying website", NoUrl),
                                     result.attempts), <<>>, <<>>, index_stored)
            ELSE IF index_failed(result)
            THEN Deployment(Returned(ToolResult("Deployment failed",
                                                "Failed to upload index.html", NoUrl),
                                     result.attempts), <<>>, <<>>, index_stored)
            ELSE LET all == upload_others(env.order, site_path, config_complete,
                                          env.answers,
                                          [uploaded |-> <<"index.html">>,
                                           errors |-> <<>>,
                                           attempts |-> result.attempts,
                                           stored |-> index_stored])
                     entry_url == result.result.url
                 IN IF entry_url # NoUrl
                    THEN Deployment(
                             Returned(ToolResult("Website deployed successfully",
                                                 IF all.errors = <<>> THEN None
                                                 ELSE "Failed to upload",
                                                 entry_url), all.attempts),
                             all.uploaded, all.errors, all.stored)
                    ELSE Deployment(
                             Returned(ToolResult("Deployment failed",
                                                 "Failed to deploy website: No entry URL obtained",
                                                 NoUrl), all.attempts),
                             all.uploaded, all.errors, all.stored)

\* The files of the folder whose upload the storage is asked for.
DeployFiles(folder_path) ==
    {IndexPath(folder_path)} \cup {f.path : f \in OtherFiles(folder_path)}

\* One call of a tool by the agent.
ToolCall(call, outcome, stored) ==
    /\ nCalls' = nCalls + 1
    /\ tool_call' = call
    /\ tool_outcome' = outcome
    /\ bucket' = bucket \cup stored
    /\ UNCHANGED <<taskVars, hubVars, logVars, finishVars, agentVars, busVars,
                   otherVars>>

R2Upload(in, config_complete, env) ==
    /\ nCalls < MaxCalls
    /\ ToolCall([tool |-> "r2_upload", input |-> in,
                 config_complete |-> config_complete,
                 env |-> env],
                R2UploadTool_execute(in, config_complete, env),
                Stored(R2UploadTool_execute(in, config_complete, env), env))

COSUpload(in, config_complete, env) ==
    /\ nCalls < MaxCalls
    /\ ToolCall([tool |-> "cos_upload", input |-> in,
                 config_complete |-> config_complete,
                 env |-> env],
                COSUploadTool_execute(in, config_complete, env),
                Stored(COSUploadTool_execute(in, config_complete, env), env))

DeployWebsite(in, config_complete, env) ==
    /\ nCalls < MaxCalls
    /\ ToolCall([tool |-> "deploy_website", input |-> in,
                 config_complete |-> config_complete,
                 env |-> env],
                DeployWebsiteTool_execute(in, config_complete, env),
                DeployWebsiteTool_execute(in, config_complete, env).stored)

VerifyWebsite(in, env) ==
    /\ nCalls < MaxCalls
    /\ ToolCall([tool |-> "verify_website", input |-> in, env |-> env],
                VerifyWebsiteTool_execute(in, env), {})

ToolNext ==
    \/ \E in \in UploadInputs, config_complete \in BOOLEAN, upload \in R2Answers :
           R2Upload(in, config_complete, [upload |-> upload])
    \/ \E in \in UploadInputs, config_complete \in BOOLEAN,
          upload \in CosAnswers, acl \in CosAnswers :
           COSUpload(in, config_complete, [upload |-> upload, acl |-> acl])
    \/ \E in \in VerifyInputs, http \in HttpAnswers :
           VerifyWebsite(in, [http |-> http])
    \/ \E in \in DeployInputs, config_complete \in BOOLEAN, stat_raises \in BOOLEAN :
         \E answers \in [DeployFiles(in.folder_path) -> R2Answers],
            order \in Orders(OtherFiles(in.folder_path)) :
           DeployWebsite(in, config_complete,
                         [stat_raises |-> stat_raises, answers |-> answers,
                          order |-> order])

ToolSpec == Init /\ [][ToolNext]_vars

\* --------------------------------------- Part VI: src/app/flow/base.py

HandlerIds == 1..MaxHandlers

\* An event type event_callbacks holds from the start, and one it does not.
FlowEventTypes == {"flow_step", "custom"}

\* What awaiting a handler can end with: it returns, or it raises an
\* Exception.
HandlerOutcomes == {"ok", "Exception"}

\* BaseFlow.register_event_handler on the dict C
register_event_handler(C, event_type, callback) ==
    IF event_type \notin DOMAIN C
    THEN C @@ (event_type :> <<callback>>)
    ELSE [C EXCEPT ![event_type] = Append(@, callback)]

\* A loop without the try around the handler: what the handler raises
\* leaves emit_event.
after_callback_no_except(outcome) == IF outcome = "ok" THEN "next" ELSE "raise"

\* emit_event: try: await callback(data) / except Exception: logger.error(...)
\* and on to the next handler.
after_callback(outcome) == "next"

\* The callbacks the loop of emit_event runs over; none for an event type
\* that is not in the dict.
callbacks_of(event_type) ==
    IF event_type \in DOMAIN event_callbacks THEN event_callbacks[event_type]
    ELSE <<>>

FlowFrame ==
    UNCHANGED <<taskVars, hubVars, logVars, finishVars, agentVars, toolVars, thinkVars,
                trVars>>

\* register_event_handler(event_type, callback)
FlowRegister(event_type, callback) ==
    /\ Len(callbacks_of(event_type)) < MaxHandlers
    /\ event_callbacks' = register_event_handler(event_callbacks, event_type, callback)
    /\ UNCHANGED <<flow_task_id, flow_emit, flow_calls, nFlowEmits, busVars>>
    /\ FlowFrame

\* A flow class with a task_id attribute gets its task id.
FlowSetTaskId(task_id) ==
    /\ flow_task_id = 0
    /\ flow_task_id' = task_id
    /\ UNCHANGED <<event_callbacks, flow_emit, flow_calls, nFlowEmits, busVars>>
    /\ FlowFrame

\* emit_event(event_type, data) is called.
FlowEmit(event_type) ==
    /\ flow_emit.pc # "loop"
    /\ nFlowEmits < MaxFlowEmits
    /\ nFlowEmits' = nFlowEmits + 1
    /\ flow_emit' = [pc |-> "loop", type |-> event_type, i |-> 1, forwarded |-> FALSE]
    /\ flow_calls' = <<>>
    /\ UNCHANGED <<event_callbacks, flow_task_id, busVars>>
    /\ FlowFrame

\* One round of the for loop: the next handler of the list is awaited and
\* returns or raises.
FlowCallHandler(outcome) ==
    /\ flow_emit.pc = "loop"
    /\ flow_emit.i <= Len(callbacks_of(flow_emit.type))
    /\ flow_calls' = Append(flow_calls,
                            [handler |-> callbacks_of(flow_emit.type)[flow_emit.i],
                             outcome |-> outcome])
    /\ flow_emit' = IF after_callback(outcome) = "next"
                    THEN [flow_emit EXCEPT !.i = @ + 1]
                    ELSE [flow_emit EXCEPT !.pc = "raised"]
    /\ UNCHANGED <<event_callbacks, flow_task_id, nFlowEmits, busVars>>
    /\ FlowFrame

\* The loop is over: if the flow has a task id the event goes to the event
\* bus, and emit_event returns.
FlowForward ==
    /\ flow_emit.pc = "loop"
    /\ flow_emit.i > Len(callbacks_of(flow_emit.type))
    /\ IF flow_task_id # 0
       THEN /\ flow_emit' = [flow_emit EXCEPT !.pc = "returned", !.forwarded = TRUE]
            /\ nEmits' = nEmits + 1
            /\ last_puts' = emit_queues(task_event_queues, flow_task_id)
            /\ bus_buf' = put_each(bus_buf,
                                   emit_queues(task_event_queues, flow_task_id),
                                   BusEvent(flow_task_id, flow_emit.type, nEmits + 1))
       ELSE /\ flow_emit' = [flow_emit EXCEPT !.pc = "returned"]
            /\ UNCHANGED <<nEmits, last_puts, bus_buf>>
    /\ UNCHANGED <<event_callbacks, flow_task_id, flow_calls, nFlowEmits,
                   task_event_queues, bus_task>>
    /\ FlowFrame

\* A flow, its handlers and the event bus.
FlowNext ==
    \/ \E ty \in FlowEventTypes, h \in HandlerIds : FlowRegister(ty, h)
    \/ \E t \in TaskIds : FlowSetTaskId(t)
    \/ \E ty \in FlowEventTypes : FlowEmit(ty)
    \/ \E outcome \in HandlerOutcomes : FlowCallHandler(outcome)
    \/ FlowForward
    \/ \E t \in TaskIds : RegisterTask(t)

FlowSpec == Init /\ [][FlowNext]_vars

\* -------------------------------------- Part VII: src/app/agent/manus.py

\* The content of a message of the agent's memory: none, a text that does
\* not mention the browser tool, and one that does, in capitals.
MessageContents == {"None", "hello", "Observed output of Browser_Use"}

\* hasattr(msg, "content") and isinstance(msg.content, str)
\*     and "browser_use" in msg.content.lower()
mentions_browser_use(content) == content = "Observed output of Browser_Use"

\* self.memory.messages[-3:] if self.memory.messages else []
recent_messages(m) == IF Len(m) <= 3 THEN m ELSE SubSeq(m, Len(m) - 2, Len(m))

\* browser_in_use = any(... for msg in recent_messages ...)
browser_in_use(m) ==
    \E i \in 1..Len(recent_messages(m)) : mentions_browser_use(recent_messages(m)[i])

\* How an await can end for the coroutine that waits: the awaited call
\* returns, it raises, or the task is cancelled while it waits.
AwaitOutcomes == {"returned", "raised", "cancelled"}

ThinkFrame ==
    UNCHANGED <<taskVars, hubVars, logVars, finishVars, agentVars, busVars,
                toolVars, flowVars, trVars>>

\* A message is added to the agent's memory between two think calls.
AddMessage(content) ==
    /\ think.pc \in {"idle", "exited"}
    /\ Len(messages) < MaxMessages
    /\ messages' = Append(messages, content)
    /\ UNCHANGED <<next_step_prompt, think, nThinks>>
    /\ ThinkFrame

\* think() is called: the prompt is remembered, the recent messages are
\* looked at, and the call waits in emit_event("manus_context", ...).
ThinkEnter ==
    /\ think.pc \in {"idle", "exited"}
    /\ nThinks < MaxThinks
    /\ nThinks' = nThinks + 1
    /\ think' = [pc |-> "emit", original_prompt |-> next_step_prompt,
                 browser_in_use |-> browser_in_use(messages), exit |-> "none"]
    /\ UNCHANGED <<next_step_prompt, messages>>
    /\ ThinkFrame

\* emit_event is over.  If it returned, the browser prompt is put in place
\* when the browser is in use and the call waits in super().think();
\* otherwise the exception leaves think.
ThinkEmitted(outcome) ==
    /\ think.pc = "emit"
    /\ IF outcome = "returned"
       THEN /\ next_step_prompt' = IF think.browser_in_use
                                   THEN "BROWSER_NEXT_STEP_PROMPT"
                                   ELSE next_step_prompt
            /\ think' = [think EXCEPT !.pc = "parent"]
       ELSE /\ think' = [think EXCEPT !.pc = "exited", !.exit = outcome]
            /\ UNCHANGED next_step_prompt
    /\ UNCHANGED <<messages, nThinks>>
    /\ ThinkFrame

\* super().think() is over.  If it returned, the remembered prompt is put
\* back and think returns; an exception or a cancellation leaves think from
\* the await, and the assignment after it is not run.
ThinkParent(outcome) ==
    /\ think.pc = "parent"
    /\ next_step_prompt' = IF outcome = "returned" THEN think.original_prompt
                           ELSE next_step_prompt
    /\ think' = [think EXCEPT !.pc = "exited", !.exit = outcome]
    /\ UNCHANGED <<messages, nThinks>>
    /\ ThinkFrame

\* The think calls of one Manus agent.
ThinkNext ==
    \/ \E content \in MessageContents : AddMessage(content)
    \/ ThinkEnter
    \/ \E outcome \in AwaitOutcomes : ThinkEmitted(outcome)
    \/ \E outcome \in AwaitOutcomes : ThinkParent(outcome)

ThinkSpec == Init /\ [][ThinkNext]_vars

\* --------------------- Part II, continued: EventManager.tool_result

\* The tool names tool_result has a branch for, one that is a field of
\* ToolDetail without a branch, and one that is neither.
ToolNames == {"web_search", "browser_use", "str_replace_editor", "bash", "terminate",
              "planning", "python_execute", "create_chat_completion", "r2_upload"}

\* The fields of the model ToolDetail.
ToolDetailFields == {"create_chat_completion", "planning", "bash", "browser_use",
                     "web_search", "str_replace_editor", "terminate",
                     "python_execute"}

\* The shapes of args: None, {}, a dict with the tool's arguments, a string.
ArgsShapes == {"None", "empty dict", "dict", "str"}

\* The shapes of result: a ToolResult of app.tool.base with an output text,
\* one whose output is None (a failure), a string, and the dict that
\* python_execute returns.
ResultShapes == {"ToolResult", "ToolResult without output", "str", "dict"}

\* isinstance(args, dict)
is_dict(args) == args \in {"empty dict", "dict"}

\* if args: None and {} are false
truthy(args) == args \in {"dict", "str"}

\* isinstance(result, base.ToolResult)
is_tool_result(result) == result \in {"ToolResult", "ToolResult without output"}

\* args.get(key) and args.get(key, ""): the kind of value it gives
args_get(args, default) == IF args = "dict" THEN "str" ELSE default

\* result.output
output_of(result) == IF result = "ToolResult" THEN "str" ELSE None

\* result.output if isinstance(result, base.ToolResult) else str(result)
output_or_str(result) == IF is_tool_result(result) THEN output_of(result) ELSE "str"

\* ToolStatus.SUCCESS if success else ToolStatus.FAIL
tool_status_of(success) == IF success THEN "success" ELSE "fail"

\* Event(type=TypeEnum.TOOL_USED, tool=..., tool_status=..., tool_detail=...)
ToolUsed(tool_name, tool_status, tool_detail) ==
    [raised |-> None,
     event |-> [type |-> "toolUsed", tool |-> tool_name, tool_status |-> tool_status,
                tool_detail |-> tool_detail]]

\* The call leaves tool_result with an exception before add_event.
Fails(exception) == [raised |-> exception, event |-> NoEvent]

\* A detail model is built if every field declared str (or List[str])
\* without a default got a value; None there is a ValidationError.
Built(required, tool_name, success) ==
    IF None \in required THEN Fails("ValidationError")
    ELSE ToolUsed(tool_name, tool_status_of(success), tool_name)

\* The last statement of tool_result: ToolDetail(**{tool_name: args}) if
\* args else None.  A name that is no field of ToolDetail is ignored; for a
\* field, args must be a dict that has the required fields of its model,
\* and the arguments of a tool never hold its result.
default_event(tool_name, args) ==
    IF ~truthy(args) THEN ToolUsed(tool_name, None, None)
    ELSE IF tool_name \notin ToolDetailFields THEN ToolUsed(tool_name, None, "empty")
    ELSE IF args = "dict"
            /\ tool_name \in {"browser_use", "python_execute", "create_chat_completion"}
    THEN ToolUsed(tool_name, None, tool_name)
    ELSE Fails("ValidationError")

\* tool_result up to the call of add_event: the event it builds, or the
\* exception it raises.  accepted is whether the model
\* Planning takes a ToolResult of app.tool.base for its field result, which
\* is declared with the ToolResult of app.event.
EventManager_tool_result(tool_name, args, result, success, accepted) ==
    CASE tool_name = "web_search" /\ is_dict(args) /\ is_tool_result(result) ->
             Built({args_get(args, None), output_of(result)}, tool_name, success)
      [] tool_name = "browser_use" /\ is_dict(args) /\ is_tool_result(result) ->
             Built({args_get(args, None)}, tool_name, success)
      [] tool_name = "str_replace_editor" /\ is_dict(args) /\ is_tool_result(result) ->
             Built({args_get(args, ""), args_get(args, "")}, tool_name, success)
      [] tool_name = "bash" /\ is_dict(args) ->
             Built({args_get(args, ""), output_or_str(result)}, tool_name, success)
      [] tool_name = "terminate" ->
             Built({output_or_str(result)}, tool_name, success)
      [] tool_name = "planning" /\ is_dict(args) /\ is_tool_result(result) ->
             IF accepted
             THEN Built({args_get(args, "")}, tool_name, success)
             ELSE Fails("ValidationError")
      [] tool_name = "python_execute" /\ is_dict(args) ->
             IF result = "dict" THEN Built({args_get(args, "")}, tool_name, success)
             ELSE Fails("AttributeError")
      [] OTHER -> default_event(tool_name, args)

\* One call of tool_result by publisher p: the event is built and handed
\* to add_event, or the call raises and nothing reaches the hub.
ToolResultCall(p, tool_name, args, result, success, accepted) ==
    LET r == EventManager_tool_result(tool_name, args, result, success, accepted)
    IN /\ pubPc[p] = "idle"
       /\ tr_call' = [tool_name |-> tool_name, args |-> args, result |-> result]
       /\ IF r.raised # None
          THEN /\ tr_outcome' = [raised |-> r.raised, event |-> r.event, id |-> 0]
               /\ UNCHANGED hubVars
          ELSE /\ tr_outcome' = [raised |-> None, event |-> r.event,
                                 id |-> nPublished + 1]
               /\ add_event(p)
       /\ UNCHANGED <<taskVars, logVars, finishVars, agentVars, busVars, toolVars,
                      flowVars, thinkVars>>

\* The tool results of one agent and one client of the hub.
ToolResultNext ==
    \/ \E tool_name \in ToolNames, args \in ArgsShapes, result \in ResultShapes,
          success \in BOOLEAN :
         \E accepted \in IF tool_name = "planning" THEN BOOLEAN ELSE {TRUE} :
           ToolResultCall(1, tool_name, args, result, success, accepted)
    \/ PubResume(1)
    \/ \E maxsize \in {0, QueueSize} : ConnectClient(1, maxsize, FALSE)
    \/ ClientGet(1)

ToolResultSpec == Init /\ [][ToolResultNext]_vars

\* ------------------------------------------------------- Part I: properties

Consumed(task_id) == Len(emitted[task_id]) - Len(queues[task_id])

TerminalCount(task_id) ==
    Cardinality({i \in 1..Len(emitted[task_id]) : IsTerminal(emitted[task_id][i])})

TaskOver(task_id) ==
    /\ task_id \in DOMAIN tasks
    /\ tasks[task_id].status \in
           {"completed", "terminated"} \cup {FailedStatus(e) : e \in Errors}

\* C1: the events put on a task's queue never hold more than one terminal
\* event (type complete or error), and hold exactly one once the execution
\* has stopped.
C1_ExactlyOneTerminalEvent ==
    \A t \in DOMAIN tasks :
        /\ TerminalCount(t) <= 1
        /\ CoroutineDone(t) => TerminalCount(t) = 1

\* C2: no event stream hangs.  A stream that is open on a task that has
\* finished, failed or been terminated ends: it is never left waiting on an
\* empty queue after the execution has stopped, when nothing can put an
\* event on that queue any more.
C2_NoSubscriberHangs ==
    \A s \in SubIds :
        ~ /\ subPc[s] = "open"
          /\ TaskOver(subTask[s])
          /\ CoroutineDone(subTask[s])
          /\ queues[subTask[s]] = <<>>

\* C3: a stream that is open has been given every event that was put on its
\* task's queue after it subscribed and has since left the queue: no other
\* stream took one of them away.
C3_FanOut ==
    \A s \in SubIds :
        subPc[s] = "open" =>
            nReceived[s] =
                IF Consumed(subTask[s]) > subAt[s]
                THEN Consumed(subTask[s]) - subAt[s] ELSE 0

\* The event stream s yielded last is a complete or an error event.
LastYieldedEndsStream(s) ==
    /\ subLast[s] > 0
    /\ emitted[subTask[s]][subLast[s]].type \in {"complete", "error"}

\* C19: every event a stream yields was put on the task's queue after the
\* event it yielded before (and is the oldest one the queue holds); a stream
\* that has yielded a complete or an error event is closed, and a closed
\* stream yields nothing more.
C19_StreamOrderAndTermination ==
    /\ [](\A s \in SubIds : LastYieldedEndsStream(s) => subPc[s] = "closed")
    /\ [][\A s \in SubIds :
             /\ subLast'[s] # subLast[s] =>
                    /\ subPc[s] = "open"
                    /\ subLast'[s] > subLast[s]
                    /\ subLast'[s] = Head(queues[subTask[s]]).id
                    /\ queues'[subTask[s]] = Tail(queues[subTask[s]])
             /\ subPc[s] = "closed" =>
                    subPc'[s] = "closed" /\ subLast'[s] = subLast[s]]_vars

\* A stream has yielded several events, the last one a complete event, and
\* is closed while its task's queue holds more events.
C19_Witness ==
    \E s \in SubIds :
        /\ subPc[s] = "closed"
        /\ nReceived[s] >= 2
        /\ LastYieldedEndsStream(s)
        /\ emitted[subTask[s]][subLast[s]].type = "complete"
        /\ queues[subTask[s]] # <<>>

\* The result step run_task recorded for the task, if any.
ResultSteps(task_id) ==
    {i \in 1..Len(tasks[task_id].steps) : tasks[task_id].steps[i].type = "result"}

\* C23: the step counter of an agent is never above max_steps, and an agent
\* whose counter has reached max_steps is FINISHED, never ERROR or still
\* running, and the result recorded for its task is the truncation notice.
C23_StepCounterBounded ==
    \A t \in TaskIds :
        /\ current_step[t] <= MaxSteps
        /\ current_step[t] = MaxSteps =>
               /\ agentState[t] = "FINISHED"
               /\ runPc[t] = "done"
               /\ tasks[t].status = "completed"
               /\ ResultSteps(t) # {}
               /\ \A i \in ResultSteps(t) :
                      tasks[t].steps[i].result = "max steps reached"

C23_Witness ==
    \E t, u \in DOMAIN tasks :
        /\ current_step[t] = MaxSteps /\ agentState[t] = "FINISHED"
        /\ agentState[u] = "FINISHED" /\ current_step[u] < MaxSteps
        /\ \E i \in ResultSteps(u) : tasks[u].steps[i].result = "answer"

\* The events update_task_step put on the queue of a task for the step
\* itself: they alone carry the step number.
IsStepEvent(event) == "step" \in DOMAIN event

StepEvents(task_id) == SelectSeq(emitted[task_id], IsStepEvent)

\* The step record update_task_step appends with the event it puts.
StepRecord(event) ==
    [f \in DOMAIN event \ HistoryFields |-> event[f]]

IsPrefix(s, t) == Len(s) <= Len(t) /\ SubSeq(t, 1, Len(s)) = s

UnknownTaskIds == (1..MaxTasks + 1) \ DOMAIN tasks

\* What holds of the steps and the events of the tasks in every state.
StepsMirrorEvents ==
    /\ \A t \in DOMAIN tasks :
          /\ Len(tasks[t].steps) = Len(StepEvents(t))
          /\ \A i \in 1..Len(tasks[t].steps) :
                 tasks[t].steps[i] = StepRecord(StepEvents(t)[i])
          /\ \A i \in 1..Len(emitted[t]) :
                 IsStepEvent(emitted[t][i]) =>
                     /\ i < Len(emitted[t])
                     /\ emitted[t][i + 1].type = "status"
    /\ \A id \in UnknownTaskIds : update_task_step(TM, id, 0, "log") = TM

\* C25: the steps of a task mirror the events put for them.  After any
\* sequence of update_task_step calls the steps list of a task holds exactly
\* one record per call on that task, in the order of the calls, and it never
\* shrinks; each call puts the typed event and directly after it a status
\* event; a call for an unknown task id changes nothing.
C25_StepsMirrorEvents ==
    /\ []StepsMirrorEvents
    /\ [][\A t \in DOMAIN tasks : IsPrefix(tasks[t].steps, tasks'[t].steps)]_vars

\* A logger call has added a step to two tasks, each of which holds several
\* steps, while a third id is unknown.
C25_Witness ==
    /\ nLogs > 0
    /\ DOMAIN tasks = 1..2
    /\ \A t \in DOMAIN tasks :
          /\ Len(tasks[t].steps) >= 2
          /\ \E i \in 1..Len(tasks[t].steps) : tasks[t].steps[i].type = "log"
    /\ UnknownTaskIds # {}

\* The positions of the terminal events among the events put on the queue
\* of a task.
TerminalPositions(task_id) ==
    {i \in 1..Len(emitted[task_id]) : IsTerminal(emitted[task_id][i])}

\* C27: the terminal event is last.  After the terminal (complete or error)
\* event of a task has been put on its queue no further event is put on it
\* and no step is appended to the task; in particular the result of a
\* finished task is put before its terminal event.
C27_TerminalEventIsLast ==
    \A t \in DOMAIN tasks :
        \A i \in TerminalPositions(t) :
            /\ i = Len(emitted[t])
            /\ \A j \in 1..Len(emitted[t]) :
                   emitted[t][j].type = "result" => j < i

TerminalStatuses ==
    {"completed", "terminated"} \cup {FailedStatus(e) : e \in Errors}

\* C28: a terminal task status is stable.  Once the status of a task is
\* completed, failed: <reason> or terminated, no later operation changes it:
\* not complete_task, fail_task or terminate_task, and not the execution
\* that is still unwinding after a terminate request.
C28_TerminalStatusStable ==
    [][\A t \in DOMAIN tasks :
           tasks[t].status \in TerminalStatuses =>
               tasks'[t].status = tasks[t].status]_vars

\* One task was terminated while its execution waited for the completion
\* call, and the execution has since unwound; another has completed and was
\* asked to terminate afterwards; both kept their status.
C28_Witness ==
    /\ DOMAIN tasks = 1..2
    /\ \E t \in DOMAIN tasks :
          /\ tasks[t].status = "terminated"
          /\ tasks[t].steps # <<>>
          /\ CoroutineDone(t)
    /\ \E t \in DOMAIN tasks :
          /\ tasks[t].status = "completed"
          /\ response = [status |-> "not_running", task_id |-> t]

\* The status a task has when an event of this kind is due: terminated for
\* the complete event of terminate_task, completed for that of complete_task,
\* failed: <reason> for an error event.
MatchingStatuses(event) ==
    IF event.type = "error" THEN {FailedStatus(e) : e \in Errors}
    ELSE IF "terminated" \in DOMAIN event /\ event.terminated THEN {"terminated"}
    ELSE {"completed"}

\* C29: the status precedes the terminal event.  Whenever an event that ends
\* the stream of a subscriber (type complete or error) is put on the queue of
\* a task, the status of the task has already been set to the matching
\* terminal value (completed, failed: <reason> or terminated).
C29_StatusPrecedesTerminalEvent ==
    \A t \in DOMAIN tasks :
        \A i \in TerminalPositions(t) :
            emitted[t][i].status_then \in MatchingStatuses(emitted[t][i])

\* C30: status events are snapshots.  The steps a status event carries, as
\* the subscriber sees them when it takes the event from the queue, are the
\* steps the task had when the event was put, even if further steps were
\* appended in between.
C30_StatusEventsAreSnapshots ==
    [][\A s \in SubIds :
           SubNext(s) =>
               LET event == Head(queues[subTask[s]])
               IN event.type = "status" =>
                      dumps(event, subTask[s]).steps = event.steps_then]_vars

\* C10: a terminate request for a task whose execution is not running is
\* answered "not_running", changes no task (so no status) and puts no event
\* on any queue.
C10_TerminateNotRunningIsNoOp ==
    [][\A t \in DOMAIN tasks :
          (/\ nTerminate' = nTerminate + 1
           /\ response'.task_id = t
           /\ (t \notin running_tasks \/ CoroutineDone(t)))
              => /\ response'.status = "not_running"
                 /\ tasks' = tasks
                 /\ queues' = queues
                 /\ emitted' = emitted]_vars

C10_Witness ==
    /\ response.status = "not_running"
    /\ response.task_id \in DOMAIN tasks
    /\ CoroutineDone(response.task_id)
    /\ tasks[response.task_id].status = "completed"

\* The event is the status event of a terminated task.
IsTerminatedStatus(event) ==
    event.type = "status" /\ event.status = "terminated"

\* The event is the complete event terminate_task puts.
IsTerminatingComplete(event) ==
    event.type = "complete" /\ event.terminated

\* C11: a terminate request for a task whose execution is in flight requests
\* the cancellation, sets the status to terminated and puts on the task's
\* queue, after everything that was put before, a status event (terminated)
\* and then a complete event.
C11_TerminateInFlight ==
    [][\A t \in DOMAIN tasks :
          (/\ nTerminate' = nTerminate + 1
           /\ response'.task_id = t
           /\ t \in running_tasks
           /\ ~CoroutineDone(t))
              => LET n == Len(emitted[t])
                     m == Len(queues[t])
                 IN /\ response'.status = "terminated"
                    /\ cancelReq'[t]
                    /\ tasks'[t].status = "terminated"
                    /\ Len(emitted'[t]) = n + 2
                    /\ SubSeq(emitted'[t], 1, n) = emitted[t]
                    /\ IsTerminatedStatus(emitted'[t][n + 1])
                    /\ IsTerminatingComplete(emitted'[t][n + 2])
                    /\ Len(queues'[t]) = m + 2
                    /\ SubSeq(queues'[t], 1, m) = queues[t]
                    /\ queues'[t][m + 1] = emitted'[t][n + 1]
                    /\ queues'[t][m + 2] = emitted'[t][n + 2]]_vars

C11_Witness ==
    /\ response.status = "terminated"
    /\ LET t == response.task_id
           n == Len(emitted[t])
       IN /\ cancelReq[t]
          /\ tasks[t].status = "terminated"
          /\ n >= 4
          /\ IsTerminatedStatus(emitted[t][n - 1])
          /\ IsTerminatingComplete(emitted[t][n])

\* A step of the execution of task b: its coroutine moves on, or a logger
\* call it made is delivered.
ExecutionStep(b) ==
    \/ runPc'[b] # runPc[b]
    \/ nLogs' = nLogs + 1 /\ logBy' = b

\* C12: no step of the execution of a task B appends to the steps of another
\* task A or puts an event on A's queue: A's record and A's events are the
\* same whether or not B runs.
C12_TaskIsolation ==
    [][\A a \in DOMAIN tasks : \A b \in TaskIds \ {a} :
          ExecutionStep(b) => /\ tasks'[a] = tasks[a]
                              /\ queues'[a] = queues[a]
                              /\ emitted'[a] = emitted[a]]_vars

\* The positions of the events called name in the agent's record.
EmittedAt(task_id, name) ==
    {i \in 1..Len(agentEvents[task_id]) : agentEvents[task_id][i].name = name}

\* The positions of the events of the given type among those put on the
\* task's queue.
PutAt(task_id, type) ==
    {i \in 1..Len(emitted[task_id]) : emitted[task_id][i].type = type}

\* C14: when the completion call of the chain-of-thought agent's step has
\* succeeded, the agent has emitted one thinking event and after it one
\* task_complete event whose results are the model's answer, the agent is
\* FINISHED, a think event and after it a complete event are on the task's
\* queue, and the task's status is completed.
C14_SingleStepAgent ==
    \A t \in DOMAIN tasks :
        EmittedAt(t, "task_complete") # {} =>
            /\ Cardinality(EmittedAt(t, "thinking")) = 1
            /\ Cardinality(EmittedAt(t, "task_complete")) = 1
            /\ \A i \in EmittedAt(t, "thinking") :
                   \A j \in EmittedAt(t, "task_complete") :
                       /\ i < j
                       /\ agentEvents[t][j].results = <<agentEvents[t][i].content>>
            /\ agentState[t] = "FINISHED"
            /\ \E i \in PutAt(t, "think") : \E j \in PutAt(t, "complete") : i < j
            /\ tasks[t].status = "completed"

C14_Witness ==
    \E t \in DOMAIN tasks :
        /\ EmittedAt(t, "task_complete") # {}
        /\ runPc[t] = "done"
        /\ agentEvents[t][Len(agentEvents[t])].results = <<"4">>

\* C22: no step takes an agent that is FINISHED or ERROR to another state.
C22_TerminalStateIsFinal ==
    [][\A t \in TaskIds :
          agentState[t] \in TerminalStates => agentState'[t] = agentState[t]]_vars

\* One agent is FINISHED and its task was since asked to terminate, another
\* agent is in ERROR.
C22_Witness ==
    \E t, u \in DOMAIN tasks :
        /\ agentState[t] = "FINISHED" /\ agentState[u] = "ERROR"
        /\ response = [status |-> "not_running", task_id |-> t]

\* C15: when the completion call has failed, the execution is over without
\* a second attempt of the step, the task's status is failed:<reason>, an
\* error event with that reason was put on its queue, and no complete event
\* was put on its queue.
C15_CompletionFailureIsFatal ==
    \A t \in DOMAIN tasks :
        agentState[t] = "ERROR" =>
            /\ runPc[t] = "done"
            /\ Cardinality(EmittedAt(t, "step_start")) = 1
            /\ EmittedAt(t, "thinking") = {}
            /\ \E e \in Errors :
                   /\ tasks[t].status = FailedStatus(e)
                   /\ \E i \in PutAt(t, "error") :
                          /\ "message" \in DOMAIN emitted[t][i]
                          /\ emitted[t][i].message = e
            /\ PutAt(t, "complete") = {}

C15_Witness ==
    \E t \in DOMAIN tasks :
        /\ agentState[t] = "ERROR"
        /\ tasks[t].status = FailedStatus("timeout")
        /\ response = [status |-> "not_running", task_id |-> t]

\* C16: as long as the execution of a task has not run its first step, the
\* task is registered with its queue and its coroutine, has no step and an
\* idle agent, and is pending (terminated, if a terminate request came
\* first); once the execution is under way the status is running (or
\* terminated, while the cancelled coroutine has not stopped yet).
C16_CreateIsNonBlocking ==
    \A t \in DOMAIN tasks :
        /\ runPc[t] = "scheduled" =>
               /\ t \in DOMAIN queues /\ t \in running_tasks
               /\ tasks[t].steps = <<>>
               /\ agentState[t] = "IDLE"
               /\ tasks[t].status = IF cancelReq[t] THEN "terminated" ELSE "pending"
               /\ ~cancelReq[t] => queues[t] = <<>>
        /\ runPc[t] \in {"llm", "tool"} =>
               tasks[t].status = IF cancelReq[t] THEN "terminated" ELSE "running"

\* One task is under way while the next one, just created, is still pending.
C16_Witness ==
    \E t, u \in DOMAIN tasks :
        /\ runPc[t] = "llm" /\ tasks[t].status = "running"
        /\ runPc[u] = "scheduled" /\ tasks[u].status = "pending"

\* The task was created at some time.
Created(task_id) == task_id \in TaskIds /\ runPc[task_id] # "none"

\* C17: every task that was created is in the registry with its queue,
\* whatever has happened to it since, and stays there; get_task returns the
\* task for every created id and NotFound (404) for every other id.
C17_TasksNeverDestroyed ==
    /\ [](\A id \in TaskIds \cup {MaxTasks + 1} :
             IF Created(id)
             THEN /\ id \in DOMAIN tasks /\ id \in DOMAIN queues
                  /\ get_task(id) = [status_code |-> 200, task |-> tasks[id]]
             ELSE /\ id \notin DOMAIN tasks
                  /\ get_task(id).status_code = 404)
    /\ [][/\ DOMAIN tasks \subseteq DOMAIN tasks'
          /\ DOMAIN queues \subseteq DOMAIN queues']_vars

\* A completed, a failed or terminated task next to another one.
C17_Witness ==
    \E t, u \in DOMAIN tasks :
        /\ t # u
        /\ runPc[t] = "done" /\ runPc[u] = "done"
        /\ tasks[t].status = "terminated"
        /\ tasks[u].status = FailedStatus("provider_error")
        /\ Len(tasks[u].steps) > 0

UploadCall == tool_call.tool \in {"r2_upload", "cos_upload"}

\* Neither file_path nor content was given.
MissingInput == UploadCall /\ tool_call.input.file_path = "" /\ tool_call.input.content = ""

\* What makes the last call a failure: for an upload a missing input, an
\* incomplete configuration, a local file that is not there or a storage
\* request that was refused; for a verification a page that was not
\* fetched with status 200.
CallFailed ==
    CASE tool_call.tool = "r2_upload" ->
             \/ MissingInput \/ ~tool_call.config_complete
             \/ tool_call.input.file_path \notin {"", "index.html"}
             \/ tool_call.env.upload # "ok"
      [] tool_call.tool = "cos_upload" ->
             \/ MissingInput \/ ~tool_call.config_complete
             \/ tool_call.input.file_path \notin {"", "index.html"}
             \/ tool_call.env.upload # "ok" \/ tool_call.env.acl # "ok"
      [] tool_call.tool = "verify_website" ->
             tool_call.env.http # "200" \/ tool_call.input.url = ""
      [] OTHER -> FALSE

NoEntryPoint(in) ==
    \/ in.folder_path = ""
    \/ Stat(in.folder_path) # "dir"
    \/ index_missing(in.folder_path)

\* C26: a call of deploy_website with a folder path that is empty, does not
\* exist, is no directory or holds no index.html returns a result with its
\* error set and no URL, and has sent no upload request.
C26_DeployRequiresEntryPoint ==
    (tool_call.tool = "deploy_website" /\ NoEntryPoint(tool_call.input)) =>
        /\ tool_outcome.returned
        /\ tool_outcome.result.error # None
        /\ tool_outcome.result.url = NoUrl
        /\ tool_outcome.attempts = <<>>

\* The call is a deployment that got as far as the upload of index.html.
DeployReachesUpload ==
    /\ tool_call.tool = "deploy_website"
    /\ ~NoEntryPoint(tool_call.input)

\* The key under which a deployment asks the storage to keep index.html.
IndexKey ==
    SitePath(tool_call.input.site_name) \o <<"index.html">>

\* What the upload tool answers the deployment for index.html.
IndexUpload ==
    UploadFile(IndexPath(tool_call.input.folder_path),
               SitePath(tool_call.input.site_name), "index.html",
               tool_call.config_complete, tool_call.env.answers)

\* The upload of index.html reports an error.
IndexUploadFailed == ~IndexUpload.returned \/ IndexUpload.result.error # None

\* C35: a deployment that reaches its uploads asks the storage for
\* index.html before it asks for any other file and asks for it at most
\* once, and exactly once if the upload tool is configured; if the upload
\* of index.html reports an error, no request for another file is sent,
\* no other file is reported as uploaded, and the result has its error set
\* and no URL.
C35_IndexFirstAndOnce ==
    DeployReachesUpload =>
        LET attempts == tool_outcome.attempts
        IN /\ tool_outcome.returned
           /\ attempts # <<>> => attempts[1] = IndexKey
           /\ \A i \in 2..Len(attempts) : attempts[i] # IndexKey
           /\ tool_call.config_complete => attempts # <<>>
           /\ IndexUploadFailed =>
                  /\ Len(attempts) <= 1
                  /\ tool_outcome.uploaded = <<>>
                  /\ tool_outcome.errors = <<>>
                  /\ tool_outcome.stored = {}
                  /\ tool_outcome.result.error # None
                  /\ tool_outcome.result.url = NoUrl

\* The storage refused index.html of a folder with other files: one
\* request was sent and the deployment failed without a URL.
C35_Witness ==
    /\ DeployReachesUpload
    /\ tool_call.config_complete
    /\ tool_call.env.answers["site/index.html"] = "ClientError"
    /\ \A f \in OtherFiles("site") : tool_call.env.answers[f.path] = "ok"
    /\ tool_outcome.attempts = <<IndexKey>>
    /\ tool_outcome.result.error = "Failed to upload index.html"

\* The files of the loop that are not skipped as hidden, in the order of
\* the loop.
Visible(files) == SelectSeq(files, LAMBDA f : ~Hidden(f))

\* The keys the loop of a deployment asks the storage for.
OtherKeys(files) ==
    [k \in 1..Len(Visible(files)) |->
        SitePath(tool_call.input.site_name) \o Visible(files)[k].parent
            \o <<Visible(files)[k].name>>]

\* The relative paths of the visible files the storage answered with the
\* given kind of answer ("ok" or not), in the order of the loop.
Answered(files, ok) ==
    LET sel == SelectSeq(Visible(files),
                         LAMBDA f : (tool_call.env.answers[f.path] = "ok") = ok)
    IN [k \in 1..Len(sel) |-> sel[k].rel]

C20_UnsubscribeIdempotent ==
    /\ \A c \in ClientIds :
           LET once == disconnect_client(clients, c)
               twice == disconnect_client(once.clients, c)
           IN /\ ~once.raised /\ ~twice.raised
              /\ c \notin once.clients
              /\ once.clients \subseteq clients /\ clients \subseteq once.clients \cup {c}
              /\ c \notin clients => once.clients = clients
              /\ twice.clients = once.clients
    /\ \A t \in TaskIds \cup {MaxTasks + 1}, q \in BusQueueIds :
           LET Q == task_event_queues
               once == unregister_queue(Q, t, q)
               twice == unregister_queue(once.queues, t, q)
               subscribed == t \in DOMAIN Q /\ q \in Elems(Q[t])
           IN /\ ~once.raised /\ ~twice.raised
              /\ DOMAIN once.queues = DOMAIN Q
              /\ \A u \in DOMAIN Q : u # t => once.queues[u] = Q[u]
              /\ t \in DOMAIN Q =>
                     /\ q \notin Elems(once.queues[t])
                     /\ Elems(Q[t]) \ {q} = Elems(once.queues[t])
              /\ ~subscribed => once.queues = Q
              /\ twice.queues = once.queues

\* A hub client that was disconnected and a bus queue that was unregistered
\* while another queue of its task is still registered: for both a further
\* unsubscribe is a call on something no longer subscribed.
C20_Witness ==
    /\ \E c, d \in ClientIds :
           /\ cPc[c] = "live" /\ c \notin clients
           /\ d \in clients
    /\ \E q, r \in 1..Len(bus_buf) :
           /\ bus_task[q] = bus_task[r]
           /\ q \notin Elems(task_event_queues[bus_task[q]])
           /\ r \in Elems(task_event_queues[bus_task[r]])
           /\ bus_buf[r] # <<>>

\* The queues registered for a task and not unregistered since, in the order
\* in which register_task made them.
RegisteredFor(task_id) ==
    SelectSeq([q \in 1..Len(bus_buf) |-> q],
              LAMBDA q : /\ bus_task[q] = task_id
                         /\ task_id \in DOMAIN task_event_queues
                         /\ q \in Elems(task_event_queues[task_id]))

\* C34: emit(task_id, ...) puts the event exactly once on every queue that
\* is registered for task_id at that time, in the order of their
\* registration, and on no queue registered for another task; an emit for a
\* task id without registration does nothing.
C34_EmitReachesRegisteredQueues ==
    [][nEmits' = nEmits + 1 =>
          \E t \in TaskIds \cup {MaxTasks + 1}, ty \in BusEventTypes :
              LET event == BusEvent(t, ty, nEmits')
              IN /\ last_puts' = RegisteredFor(t)
                 /\ \A q \in 1..Len(bus_buf) :
                        bus_buf'[q] =
                            IF q \in Elems(RegisteredFor(t))
                            THEN Append(bus_buf[q], event)
                            ELSE bus_buf[q]
                 /\ (\A q \in 1..Len(bus_buf) : event \notin Elems(bus_buf'[q]))
                        => RegisteredFor(t) = <<>>
                 /\ task_event_queues' = task_event_queues]_vars

\* An emit for a task with two registered queues has put its event on both,
\* first on the one registered first, while a queue of another task and a
\* queue that was unregistered got nothing.
C34_Witness ==
    /\ Len(last_puts) = 2
    /\ last_puts[1] < last_puts[2]
    /\ \E q \in 1..Len(bus_buf) :
           /\ bus_buf[q] = <<>>
           /\ bus_task[q] # bus_task[last_puts[1]]
           /\ q \in Elems(task_event_queues[bus_task[q]])

\* ----------------------------------------------------- Part VI: properties

\* The handlers the emit_event call has invoked, in the order of the calls.
HandlersCalled == [k \in 1..Len(flow_calls) |-> flow_calls[k].handler]

\* The step on which an emit_event call returns.
FlowEmitReturns == flow_emit.pc = "loop" /\ flow_emit'.pc = "returned"

\* C33: flow handler isolation.  emit_event invokes every handler registered
\* for the event type exactly once (once for each registration), in the
\* order of registration; a handler that raises stops neither the handlers
\* after it nor the forwarding to the event bus, and emit_event does not
\* raise because of a handler.
C33_FlowHandlerIsolation ==
    /\ [](/\ flow_emit.pc # "raised"
          /\ flow_emit.pc # "idle" =>
                 HandlersCalled =
                     SubSeq(callbacks_of(flow_emit.type), 1, flow_emit.i - 1))
    /\ [][FlowEmitReturns =>
             /\ HandlersCalled' = callbacks_of(flow_emit.type)
             /\ flow_emit'.forwarded = (flow_task_id # 0)
             /\ flow_emit'.forwarded =>
                    /\ nEmits' = nEmits + 1
                    /\ last_puts' = RegisteredFor(flow_task_id)
                    /\ \A q \in Elems(last_puts') :
                           bus_buf'[q] =
                               Append(bus_buf[q],
                                      BusEvent(flow_task_id, flow_emit.type,
                                               nEmits'))]_vars

\* An emit_event call whose first handler raised has gone on to call the
\* second, has put the event on a queue of the event bus and has returned.
C33_Witness ==
    /\ flow_emit.pc = "returned"
    /\ Len(flow_calls) = 2
    /\ flow_calls[1].outcome = "Exception"
    /\ flow_calls[2].outcome = "ok"
    /\ flow_calls[1].handler # flow_calls[2].handler
    /\ flow_emit.forwarded
    /\ RegisteredFor(flow_task_id) # <<>>

\* ------------------------------------------------------ Part II: properties

Min(a, b) == IF a < b THEN a ELSE b

\* The events of a delivered sequence, without their origin.
EventsOf(d) == [i \in 1..Len(d) |-> d[i].event]

\* A sequence without the repetitions of elements that came earlier.
RECURSIVE Dedup(_)
Dedup(q) ==
    IF q = <<>> THEN <<>>
    ELSE LET front == Dedup(SubSeq(q, 1, Len(q) - 1))
             last == q[Len(q)]
         IN IF \E i \in 1..Len(front) : front[i] = last
            THEN front ELSE Append(front, last)

\* How often add_event put event e on client c's queue.
LiveCount(c, e) ==
    Cardinality({i \in 1..Len(delivered[c]) :
                     delivered[c][i] = [event |-> e, origin |-> "live"]})

\* The add_event call for e is over.
PublishDone(e) ==
    e <= nPublished /\ ~\E p \in PubIds : pubPc[p] = "blocked" /\ pubEvt[p] = e

\* C4: after n add_event calls the history holds exactly the last
\* min(n, max_events) published events, in publication order.
C4_BoundedHistory ==
    LET k == Min(nPublished, MaxHistory)
    IN events = [i \in 1..k |-> nPublished - k + i]

C4_Witness ==
    /\ nPublished > MaxHistory
    /\ Len(events) = MaxHistory

\* C5: every client is handed events in the order of their publication:
\* of two events it was handed, the one published first comes first.
C5_PerSubscriberOrder ==
    \A c \in ClientIds :
        \A i, j \in 1..Len(delivered[c]) :
            i < j => delivered[c][i].event < delivered[c][j].event

C5_Witness ==
    /\ \E p \in PubIds : pubPc[p] = "blocked"
    /\ \E c \in ClientIds, e1, e2 \in EventIds :
           e1 # e2 /\ LiveCount(c, e1) = 1 /\ LiveCount(c, e2) = 1
    /\ Cardinality(clients) >= 2

\* C6 as claimed: a finished add_event call has put its event exactly once
\* on every client queue that was in the subscriber set when it published.
C6_FanOutExactlyOnce ==
    \A e \in EventIds :
        PublishDone(e) => \A c \in audience[e] : LiveCount(c, e) = 1

\* C6 as amended: a finished add_event call has put its event exactly once
\* on every client queue that was in the subscriber set when it published
\* and whose put did not raise; a client whose put raised was handed nothing
\* by that call and is no longer in the subscriber set.
C6_FanOutToAcceptingClients ==
    \A e \in EventIds :
        PublishDone(e) =>
            \A c \in audience[e] :
                IF c \in refused[e]
                THEN LiveCount(c, e) = 0 /\ c \notin clients
                ELSE LiveCount(c, e) = 1

C6_Witness ==
    \E e \in EventIds :
        /\ PublishDone(e)
        /\ refused[e] # {}
        /\ audience[e] \ refused[e] # {}

\* C21: when the put of event e on a client's queue has raised, that client
\* is out of the subscriber set and was handed nothing by the call; the call
\* goes on (it is over, or is suspended in the put on another client's
\* queue); the event is in the history as long as max_events later events
\* have not pushed it out; and once the call is over every other client of
\* its audience has been handed the event once.
C21_DeadConsumerRemoval ==
    \A e \in 1..nPublished :
        \A c \in refused[e] :
            /\ c \notin clients
            /\ LiveCount(c, e) = 0
            /\ \A p \in PubIds :
                   (pubPc[p] = "blocked" /\ pubEvt[p] = e) =>
                       /\ pubTodo[p] # <<>>
                       /\ Head(pubTodo[p]) \notin refused[e]
            /\ e > nPublished - MaxHistory => e \in Elems(events)
            /\ PublishDone(e) =>
                   \A d \in audience[e] \ refused[e] : LiveCount(d, e) = 1

\* The put on one client's queue raised, the call is over, another client
\* has the event, which is in the history, and a later event was published
\* to the clients that were left.
C21_Witness ==
    \E e \in 1..nPublished, c, d \in ClientIds :
        /\ c \in refused[e] /\ d \in audience[e] \ refused[e]
        /\ PublishDone(e)
        /\ LiveCount(d, e) = 1
        /\ e \in Elems(events)
        /\ nPublished > e /\ PublishDone(e + 1)
        /\ c \notin audience[e + 1] /\ LiveCount(d, e + 1) = 1

\* C7, first part: a client that subscribed with replay=true is handed the
\* history as it stood at the subscribe, in order, and a live event only
\* after the whole of it.
ReplayThenLive(c) ==
    LET d == delivered[c]
        k == Cardinality({i \in 1..Len(d) : d[i].origin = "replay"})
    IN /\ k <= Len(cHist[c])
       /\ \A i \in 1..k : d[i] = [event |-> cHist[c][i], origin |-> "replay"]
       /\ Len(d) > k => k = Len(cHist[c])

\* C7, second part: while an add_event call holds the lock for its
\* enqueue-to-all step, only that call changes the subscriber set.
ExclusiveNotify ==
    (lock # 0 /\ clients' # clients) => pubTodo' # pubTodo

\* C7: replay is atomic with respect to publish, and subscriber-set mutation
\* and the enqueue-to-all step exclude each other.
C7_ReplayAtomicity ==
    /\ [](\A c \in ClientIds : cReplay[c] => ReplayThenLive(c))
    /\ [][ExclusiveNotify]_vars

\* Nothing had been evicted from the history when client c subscribed.
FullHistoryAtSubscribe(c) == cHist[c] = <<>> \/ Head(cHist[c]) = 1

\* The subscribe call of client c is over (it returned or raised), the
\* consumer has neither unsubscribed nor shut its queue down, and no
\* add_event call is in progress.
Settled(c) ==
    /\ \/ cPc[c] = "failed"
       \/ cPc[c] = "live" /\ c \in clients
    /\ ~cDead[c]
    /\ lock = 0

\* C8: a client that subscribed with replay=true has been handed, duplicates
\* removed, every event published so far, in publication order.  (Stated for
\* the clients that subscribed while the history still held every event, so
\* that no failure is due to the history cap.)
C8_ReplayCompleteness ==
    \A c \in ClientIds :
        (cReplay[c] /\ FullHistoryAtSubscribe(c) /\ Settled(c)) =>
            Dedup(EventsOf(delivered[c])) = [i \in 1..nPublished |-> i]

\* C9: no add_event call is ever held up in a put on a client queue that
\* cannot take the event; such a client is dropped from the subscriber set
\* and the call goes on.
C9_Backpressure ==
    \A p \in PubIds : pubPc[p] # "blocked"

\* ----------------------------------------------------- Part III: properties

\* The plan the finish tool looks at has a step that is not completed.
IncompleteActivePlan ==
    /\ planning_tool
    /\ current_plan_id \in DOMAIN plans
    /\ \E i \in 1..Len(plans[current_plan_id]) :
           plans[current_plan_id][i] # "completed"

\* C13: while the active plan has a step that is not completed, a finish call
\* with force=false returns a non-empty error and leaves the task as it was
\* (task_complete and last_result unchanged), and a finish call with
\* force=true completes the task without error.
C13_FinishIncompletePlan ==
    [][(finish_call'.n = finish_call.n + 1 /\ IncompleteActivePlan) =>
          IF finish_call'.force
          THEN /\ task_complete'
               /\ tool_result'.error = None
          ELSE /\ tool_result'.error \notin {None, ""}
               /\ task_complete' = task_complete
               /\ last_result' = last_result]_vars

\* A call was turned down, and a later call with force=true completed the
\* task although a step is still not completed.
C13_Witness ==
    /\ wasRejected
    /\ finish_call.force
    /\ task_complete
    /\ IncompleteActivePlan

\* A step of the behaviour is a call of execute.
FinishCalled == finish_call'.n = finish_call.n + 1

\* The cases in which execute is to complete the task: force, no planning
\* tool, no current plan id, an id plans does not hold, or no status of the
\* current plan other than completed.
MayFinish(force) ==
    \/ force
    \/ ~planning_tool
    \/ current_plan_id = 0
    \/ current_plan_id \notin DOMAIN plans
    \/ \A i \in 1..Len(plans[current_plan_id]) :
           plans[current_plan_id][i] = "completed"

\* What a call of execute with the arguments of finish_call' has done, given
\* the text last_result is to hold after a completing call.
FinishOutcome(text) ==
    IF MayFinish(finish_call'.force)
    THEN /\ task_complete'
         /\ last_result' = text
         /\ tool_result'.error = None
    ELSE /\ tool_result'.error \notin {None, ""}
         /\ task_complete' = task_complete
         /\ last_result' = last_result

\* C31 as stated: execute completes the task (task_complete true,
\* last_result the given result, no error) exactly when force is true, or no
\* planning tool is attached, or it has no current plan id, or that id is not
\* among its plans, or no step status of the current plan differs from
\* completed; in every other case it returns a non-empty error.
C31_FinishCompletesExactlyWhen ==
    [][FinishCalled => FinishOutcome(finish_call'.result)]_vars

\* C31, amended: the same, with last_result the given result if that is not
\* empty and the text "Task completed." if it is.
C31_FinishCompletesWithDefault ==
    [][FinishCalled =>
          FinishOutcome(IF finish_call'.result = "" THEN "Task completed."
                        ELSE finish_call'.result)]_vars

\* A call without force and without a result, on a planning tool whose
\* current plan id names no plan, has completed the task.
C31_Witness ==
    /\ finish_call.n > 0
    /\ ~finish_call.force
    /\ finish_call.result = ""
    /\ planning_tool
    /\ current_plan_id # 0
    /\ current_plan_id \notin DOMAIN plans
    /\ task_complete
    /\ last_result = "Task completed."

\* C32: a rejected finish call changes nothing.  When execute returns the
\* incomplete-steps error, task_complete and last_result keep the values
\* they had before the call and the plan is not modified; and over any
\* sequence of finish calls task_complete never goes from true back to
\* false.
C32_RejectedFinishChangesNothing ==
    [][/\ (/\ FinishCalled
            /\ tool_result'.error = "Task has incomplete steps, not finishing yet.") =>
               /\ task_complete' = task_complete
               /\ last_result' = last_result
               /\ plans' = plans
               /\ current_plan_id' = current_plan_id
               /\ planning_tool' = planning_tool
       /\ task_complete => task_complete']_vars

\* A forced call completed the task with a result, and the call after it,
\* without force, was turned down: the task is still complete and the result
\* is that of the first call.
C32_Witness ==
    /\ finish_call.n = 2
    /\ ~finish_call.force
    /\ finish_call.result = ""
    /\ tool_result.error = "Task has incomplete steps, not finishing yet."
    /\ task_complete
    /\ last_result = "done"

\* ---------------------------------------------------- Part VII: properties

\* C37: whenever a think call is over, whether it returned, raised or was
\* cancelled, next_step_prompt is what it was when the call was entered.
C37_ThinkRestoresPrompt ==
    think.pc = "exited" => next_step_prompt = think.original_prompt

\* A think call that returned found the prompt it changed put back.
ReturnRestoresPrompt ==
    (think.pc = "exited" /\ think.exit = "returned") =>
        next_step_prompt = think.original_prompt

\* ------------------------------------ Part II, continued: properties

\* A tool_result call has been made.
ToolResultCalled == tr_call.tool_name # None

\* C38: after every call of tool_result, whatever the tool name and the
\* shapes of args and result, the call has raised nothing and has given
\* add_event one new event, which is the last of the history and whose
\* tool field is the tool name.
C38_EveryToolResultPublished ==
    ToolResultCalled =>
        /\ tr_outcome.raised = None
        /\ tr_outcome.id = nPublished
        /\ events # <<>> /\ events[Len(events)] = tr_outcome.id
        /\ tr_outcome.event.type = "toolUsed"
        /\ tr_outcome.event.tool = tr_call.tool_name

\* A call that did not raise has published its event with the tool name,
\* and a call that raised has published nothing.
ToolResultPublishedUnlessRaised ==
    /\ (ToolResultCalled /\ tr_outcome.raised = None) =>
           /\ tr_outcome.id = nPublished
           /\ events # <<>> /\ events[Len(events)] = tr_outcome.id
           /\ tr_outcome.event.tool = tr_call.tool_name
    /\ [][(tr_call' # tr_call /\ tr_outcome'.raised # None) =>
               UNCHANGED hubVars]_vars

====
